---- MODULE Spec2Model ----
(***************************************************************************)
(* Model of the NPU validation firmware:                                   *)
(*   - ai_wrapper_ATON.c : instance life cycle, npu_run, the epoch         *)
(*     callback and the telemetry counter multiplexer;                     *)
(*   - aiValidation_ATON.c : the Run command of the host protocol.         *)
(*                                                                         *)
(* Bit masks are modelled as sets of the names of their bits: "x & BIT"    *)
(* is BIT \in x, "x |= BIT" is x \cup {BIT}.  The counter format word is   *)
(* the pair of its option field (COUNTER_FMT_OPT) and its counter number   *)
(* field (COUNTER_FMT_NUMBER).  Log lines (PB_LC_PRINT, PB_LC_STAT) carry  *)
(* no state and are left out.                                              *)
(***************************************************************************)
EXTENDS Integers, Sequences, FiniteSets, TLC

\* ------------------------------------------------------------------ bounds
MaxUnits == 2        \* epoch blocks of the compiled network
MaxInputs == 2       \* input tensors of the compiled network
MaxOutputs == 2      \* output tensors of the compiled network
MaxDwt == 1          \* largest CPU cycle sample (port_dwt_get_cycles)
MaxNpuTick == 1      \* largest advance of the NPU clock counter between two events
MaxStreng == 1       \* largest counter number a streng configuration returns

\* --------------------------------------------------------------- constants
NPU_MAX_COUNTERS == 16
SHORT_RUN_TICKS == 3000
CyclesPerTick == 4   \* port_hal_get_cpu_freq() / 1000
InputBytes == 584
OutputBytes == 16
InternalBytes == 256
ElemBytes == 4
MAX_CDT_LL_BUFFERS == 16
SentinelEpochNum == 0   \* epoch_num of the entry that ends the epoch block array
USE_NPU_COUNTERS == TRUE
USE_COUNTER_NPU_CACHE == TRUE

LaneOpts == {"STRG_I_ACTIVE", "STRG_O_ACTIVE", "STRG_ACTIVE", "STRG_HENV"}
FamilyOpts == LaneOpts \cup {"BUSIF_RW_DATA"}
CounterOpts == FamilyOpts \cup {"EPOCH_LEN", "NPU_CACHE"}
\* "OTHER" stands for any bit of the option word that names no counter option
ModeBits == CounterOpts \cup {"OTHER"}
Modes == SUBSET ModeBits

DwtSamples == 1..MaxDwt
NpuTicks == 1..MaxNpuTick
StrengCounts == 0..MaxStreng
TickSamples == {0, SHORT_RUN_TICKS}

Callbacks == {"NULL", "user", "dump"}
Ctypes == <<"PRE_START", "POST_START", "PRE_END", "POST_END">>

VARIABLES
  net,        \* the compiled network: model info of the instance
  inst,       \* struct npu_instance (state, user_cb, option)
  g,          \* g_npu_exec_ctx
  rt,         \* LL_ATON runtime: callbacks, current epoch block and its phase
  hw,         \* debug/trace counters and cache counter block
  pc,         \* position of the CPU
  caller,     \* who called npu_run: "api" or "cmd"
  loc,        \* locals of npu_run
  counters,   \* struct npu_counters filled by npu_run
  evlog,      \* events handled by _epoch_callback in this run
  usercalls,  \* invocations of the user callback in this run
  hwOps,      \* counter operations done in this run
  nArm,       \* PRE_STARTs of this run that armed a counter set
  nDrain,     \* POST_ENDs of this run that drained the counter sets
  lastDrain,  \* counter operations of the last drain, in order
  ctx,        \* struct aton_context: the run options of the current command
  req,        \* the request being served
  io,         \* progress of the Run command: tensor index, last read, npu_run called
  sent,       \* messages sent to the peer for the current command
  call,       \* the current or last call of an entry point, with what it did
  controller_tick,  \* rl_tools_adapter.c: calls of rl_tools_control so far
  action_history    \* rl_tools_adapter.c: the ACTION_HISTORY_LENGTH last actions

vars == <<net, inst, g, rt, hw, pc, caller, loc, counters, evlog, usercalls,
          hwOps, nArm, nDrain, lastDrain, ctx, req, io, sent, call,
          controller_tick, action_history>>

\* the state of the control loop adapter
adapter == <<controller_tick, action_history>>

drvVars == <<g, rt, hw, loc, counters, evlog, usercalls, hwOps, nArm, nDrain, lastDrain>>
cmdVars == <<ctx, req, io, sent>>

\* ------------------------------------------------------------------ helpers
RECURSIVE BitOr(_, _)
BitOr(a, b) ==
  IF a = 0 THEN b
  ELSE IF b = 0 THEN a
  ELSE (IF a % 2 = 1 \/ b % 2 = 1 THEN 1 ELSE 0) + 2 * BitOr(a \div 2, b \div 2)

ZeroFmt == [opts |-> {}, n |-> 0]

ZeroEpoch ==
  [counter_fmt |-> ZeroFmt, npu_start |-> 0, npu_core |-> 0, npu_end |-> 0,
   cpu_start |-> 0, cpu_core |-> 0, cpu_end |-> 0]

\* a run context that keeps a cycle count of an earlier run
ZeroCtx_stale ==
  [mode |-> {}, cpu_cycles_start |-> 1, cpu_cycles_npu |-> 0, cpu_cycles_end |-> 0,
   cpu_cycles_all |-> 0, npu_cycles_all |-> 0, exec_epoch_idx |-> 0,
   user_cb |-> "NULL", cur_epoch |-> ZeroEpoch]

\* memset(&g_npu_exec_ctx, 0, ...)
ZeroCtx ==
  [mode |-> {}, cpu_cycles_start |-> 0, cpu_cycles_npu |-> 0, cpu_cycles_end |-> 0,
   cpu_cycles_all |-> 0, npu_cycles_all |-> 0, exec_epoch_idx |-> 0,
   user_cb |-> "NULL", cur_epoch |-> ZeroEpoch]

\* memset(counters, 0, ...)
ZeroCounters ==
  [cpu_all |-> 0, cpu_start |-> 0, cpu_core |-> 0, cpu_end |-> 0, extra |-> 0]

\* ------------------------------------------------- telemetry multiplexer

\* PreStartSelect with independent tests in place of the else-if chain
PreStartSelect_noelse(mode) ==
  (IF "EPOCH_LEN" \in mode /\ "BUSIF_RW_DATA" \notin mode THEN {"EPOCH_LEN"} ELSE {})
    \cup (mode \cap FamilyOpts)
    \cup (IF mode \cap LaneOpts # {} THEN {"EPOCH_LEN"} ELSE {})
    \cup (IF USE_COUNTER_NPU_CACHE THEN mode \cap {"NPU_CACHE"} ELSE {})

\* PreStartSelect with the BUSIF_RW_DATA test at the head of the chain
PreStartSelect_busfirst(mode) ==
  LET len == IF "EPOCH_LEN" \in mode /\ "BUSIF_RW_DATA" \notin mode
             THEN {"EPOCH_LEN"} ELSE {}
      fam == IF "BUSIF_RW_DATA" \in mode THEN {"BUSIF_RW_DATA"}
             ELSE IF "STRG_I_ACTIVE" \in mode THEN {"STRG_I_ACTIVE", "EPOCH_LEN"}
             ELSE IF "STRG_O_ACTIVE" \in mode THEN {"STRG_O_ACTIVE", "EPOCH_LEN"}
             ELSE IF "STRG_ACTIVE" \in mode THEN {"STRG_ACTIVE", "EPOCH_LEN"}
             ELSE IF "STRG_HENV" \in mode THEN {"STRG_HENV", "EPOCH_LEN"}
             ELSE {}
      cache == IF USE_COUNTER_NPU_CACHE /\ "NPU_CACHE" \in mode
               THEN {"NPU_CACHE"} ELSE {}
  IN len \cup fam \cup cache

\* PreStartSelect whose first test forgets BUSIF_RW_DATA
PreStartSelect_len(mode) ==
  LET len == IF "EPOCH_LEN" \in mode THEN {"EPOCH_LEN"} ELSE {}
      fam == IF "STRG_I_ACTIVE" \in mode THEN {"STRG_I_ACTIVE", "EPOCH_LEN"}
             ELSE IF "STRG_O_ACTIVE" \in mode THEN {"STRG_O_ACTIVE", "EPOCH_LEN"}
             ELSE IF "STRG_ACTIVE" \in mode THEN {"STRG_ACTIVE", "EPOCH_LEN"}
             ELSE IF "STRG_HENV" \in mode THEN {"STRG_HENV", "EPOCH_LEN"}
             ELSE IF "BUSIF_RW_DATA" \in mode THEN {"BUSIF_RW_DATA"}
             ELSE {}
      cache == IF USE_COUNTER_NPU_CACHE /\ "NPU_CACHE" \in mode
               THEN {"NPU_CACHE"} ELSE {}
  IN len \cup fam \cup cache

\* PreStartSelect with the STRG_ACTIVE branch tested before STRG_O_ACTIVE and
\* without its EPOCH_LEN line
PreStartSelect_swap(mode) ==
  LET len == IF "EPOCH_LEN" \in mode /\ "BUSIF_RW_DATA" \notin mode
             THEN {"EPOCH_LEN"} ELSE {}
      fam == IF "STRG_I_ACTIVE" \in mode THEN {"STRG_I_ACTIVE", "EPOCH_LEN"}
             ELSE IF "STRG_ACTIVE" \in mode THEN {"STRG_ACTIVE"}
             ELSE IF "STRG_O_ACTIVE" \in mode THEN {"STRG_O_ACTIVE", "EPOCH_LEN"}
             ELSE IF "STRG_HENV" \in mode THEN {"STRG_HENV", "EPOCH_LEN"}
             ELSE IF "BUSIF_RW_DATA" \in mode THEN {"BUSIF_RW_DATA"}
             ELSE {}
      cache == IF USE_COUNTER_NPU_CACHE /\ "NPU_CACHE" \in mode
               THEN {"NPU_CACHE"} ELSE {}
  IN len \cup fam \cup cache

\* _npu_counters_PRE_START, "Set/check the supported config for the counters":
\* the option field of the counter format chosen for a mode
PreStartSelect(mode) ==
  LET len == IF "EPOCH_LEN" \in mode /\ "BUSIF_RW_DATA" \notin mode
             THEN {"EPOCH_LEN"} ELSE {}
      fam == IF "STRG_I_ACTIVE" \in mode THEN {"STRG_I_ACTIVE", "EPOCH_LEN"}
             ELSE IF "STRG_O_ACTIVE" \in mode THEN {"STRG_O_ACTIVE", "EPOCH_LEN"}
             ELSE IF "STRG_ACTIVE" \in mode THEN {"STRG_ACTIVE", "EPOCH_LEN"}
             ELSE IF "STRG_HENV" \in mode THEN {"STRG_HENV", "EPOCH_LEN"}
             ELSE IF "BUSIF_RW_DATA" \in mode THEN {"BUSIF_RW_DATA"}
             ELSE {}
      cache == IF USE_COUNTER_NPU_CACHE /\ "NPU_CACHE" \in mode
               THEN {"NPU_CACHE"} ELSE {}
  IN len \cup fam \cup cache

\* npu_cache_counters_enable
npu_cache_counters_enable(h) ==
  IF h.cacheEn THEN [h EXCEPT !.cacheCnt = TRUE] ELSE h

\* npu_cache_counters_disable
npu_cache_counters_disable(h) ==
  IF h.cacheEn THEN [h EXCEPT !.cacheCnt = FALSE] ELSE h

\* LL_Dbgtrc_BurstLenBenchStart: the burst-length counters take every slot
LL_Dbgtrc_BurstLenBenchStart(h) == [h EXCEPT !.burst = TRUE]

\* LL_Dbgtrc_BurstLenGet: stops the burst-length counters and drains them
LL_Dbgtrc_BurstLenGet(h) == [h EXCEPT !.burst = FALSE]

\* one "if (fmt & STRG_x) { fmt |= Config(); if (NUMBER(fmt) > 0) Start(); }"
StrengArm(s, opt, kind, cfg) ==
  IF opt \in s.fmt.opts
  THEN LET n == BitOr(s.fmt.n, cfg)
       IN [fmt |-> [s.fmt EXCEPT !.n = n],
           hw |-> IF n > 0 THEN [s.hw EXCEPT !.streng = kind] ELSE s.hw,
           ops |-> s.ops \cup {"streng.config"}
                     \cup (IF n > 0 THEN {"streng.start"} ELSE {})]
  ELSE s

\* _npu_counters_PRE_START: the format, the hardware and the operations done;
\* cfg is the counter number the streng configuration returns
npu_counters_PRE_START(mode, h, cfg) ==
  LET opts == PreStartSelect(mode)
      s0 == [fmt |-> [opts |-> opts, n |-> 0], hw |-> h, ops |-> {}]
      s1 == IF "EPOCH_LEN" \in opts
            THEN [s0 EXCEPT !.hw = [h EXCEPT !.free = TRUE, !.clk = 0],
                            !.ops = {"free.init", "free.start"}]
            ELSE s0
      s2 == IF "BUSIF_RW_DATA" \in opts
            THEN [s1 EXCEPT !.hw = LL_Dbgtrc_BurstLenBenchStart(s1.hw),
                            !.fmt.n = BitOr(s1.fmt.n, NPU_MAX_COUNTERS),
                            !.ops = s1.ops \cup {"burst.start"}]
            ELSE s1
      s3 == IF USE_COUNTER_NPU_CACHE /\ "NPU_CACHE" \in opts
            THEN [s2 EXCEPT !.hw = npu_cache_counters_enable(s2.hw),
                            !.ops = s2.ops \cup {"cache.enable"}]
            ELSE s2
      s4 == StrengArm(s3, "STRG_I_ACTIVE", "active", cfg)
      s5 == StrengArm(s4, "STRG_O_ACTIVE", "active", cfg)
      s6 == StrengArm(s5, "STRG_ACTIVE", "active", cfg)
  IN StrengArm(s6, "STRG_HENV", "henv", cfg)

\* one "if (fmt & STRG_x) { Stop(); _dump_streng_counters(); }"
StrengDrain(s, opt, opts) ==
  IF opt \in opts
  THEN [hw |-> [s.hw EXCEPT !.streng = "off"],
        ops |-> s.ops \o <<"streng.stop", "streng.read">>]
  ELSE s

\* _npu_counters_POST_END that leaves the NPU clock counter running
npu_counters_POST_END_nostop(fmt, h) ==
  LET o == fmt.opts
      s0 == [hw |-> h, ops |-> <<>>]
      s1 == IF USE_COUNTER_NPU_CACHE /\ "NPU_CACHE" \in o
            THEN [hw |-> npu_cache_counters_disable(h),
                  ops |-> <<"cache.get", "cache.disable">>]
            ELSE s0
      s2 == StrengDrain(s1, "STRG_I_ACTIVE", o)
      s3 == StrengDrain(s2, "STRG_O_ACTIVE", o)
      s4 == StrengDrain(s3, "STRG_ACTIVE", o)
      s5 == StrengDrain(s4, "STRG_HENV", o)
  IN IF "BUSIF_RW_DATA" \in o
     THEN [hw |-> LL_Dbgtrc_BurstLenGet(s5.hw), ops |-> s5.ops \o <<"burst.get">>]
     ELSE s5

\* _npu_counters_POST_END: the hardware and the operations done, in order
npu_counters_POST_END(fmt, h) ==
  LET o == fmt.opts
      s0 == [hw |-> h, ops |-> <<>>]
      s1 == IF USE_COUNTER_NPU_CACHE /\ "NPU_CACHE" \in o
            THEN [hw |-> npu_cache_counters_disable(h),
                  ops |-> <<"cache.get", "cache.disable">>]
            ELSE s0
      s2 == StrengDrain(s1, "STRG_I_ACTIVE", o)
      s3 == StrengDrain(s2, "STRG_O_ACTIVE", o)
      s4 == StrengDrain(s3, "STRG_ACTIVE", o)
      s5 == StrengDrain(s4, "STRG_HENV", o)
      s6 == IF "BUSIF_RW_DATA" \in o
            THEN [hw |-> LL_Dbgtrc_BurstLenGet(s5.hw), ops |-> s5.ops \o <<"burst.get">>]
            ELSE s5
  IN IF "EPOCH_LEN" \in o
     THEN [hw |-> [s6.hw EXCEPT !.free = FALSE], ops |-> s6.ops \o <<"free.stop">>]
     ELSE s6

\* the NPU clock counter read whatever the format
ReadsFreeCounter_always(fmt) == TRUE

\* _get_cycles_npu_free_counter: whether the NPU clock counter is read
ReadsFreeCounter(fmt) == "EPOCH_LEN" \in fmt.opts

\* _get_cycles_npu_free_counter
get_cycles_npu_free_counter(fmt, h) == IF ReadsFreeCounter(fmt) THEN h.clk ELSE 0

\* _reset_npu_free_counter
reset_npu_free_counter(fmt, h) ==
  IF "EPOCH_LEN" \in fmt.opts THEN [h EXCEPT !.clk = 0] ELSE h

\* the counter sets running in the hardware
Armed(h) ==
  (IF h.free THEN {"free"} ELSE {}) \cup (IF h.burst THEN {"burst"} ELSE {})
    \cup (IF h.streng # "off" THEN {"streng"} ELSE {})
    \cup (IF h.cacheCnt THEN {"cache"} ELSE {})

\* ------------------------------------------------------------ the network

\* A compiled network: unit k is epoch block k, owns one internal buffer, and
\* the last unit owns the output buffers.
Network(ni, no, nu) ==
  [n_inputs |-> ni, n_outputs |-> no, n_epochs |-> nu,
   epochs |-> [k \in 1..nu |-> [epoch_num |-> k, last_epoch_num |-> k]],
   in_bufs |-> [k \in 1..ni |-> [name |-> "in", addr |-> <<"in", k>>,
                                  size |-> InputBytes, elsize |-> ElemBytes]],
   internals |-> [k \in 1..nu |->
                   [name |-> "act", addr |-> <<"act", k>>, epoch |-> k, valid |-> TRUE,
                    size |-> InternalBytes]],
   out_bufs |-> [k \in 1..no |->
                  [name |-> "out", addr |-> <<"out", k>>, epoch |-> nu, valid |-> TRUE,
                   size |-> OutputBytes]]]

Networks ==
  {Network(ni, no, nu) : ni \in 1..MaxInputs, no \in 0..MaxOutputs, nu \in 1..MaxUnits}

\* ------------------------------------------------------ instance life cycle

\* npu_init whose soft reset clears the caches whatever the state
npu_init_softalways(i, r, h, mode) ==
  IF mode = 0
  THEN [inst |-> [i EXCEPT !.state = 0],
        rt |-> [r EXCEPT !.net_init = FALSE, !.rt_init = FALSE, !.rt_cb = FALSE],
        hw |-> IF r.rt_cb /\ r.rt_init THEN [h EXCEPT !.dbgtrc = FALSE] ELSE h,
        ops |-> <<"LL_ATON_RT_DeInit_Network", "LL_ATON_RT_RuntimeDeInit",
                  "LL_ATON_RT_SetRuntimeCallback(NULL)">>,
        ret |-> 0]
  ELSE IF mode = 1
  THEN [inst |-> [i EXCEPT !.state = 1],
        rt |-> [r EXCEPT !.net_init = TRUE, !.rt_init = TRUE, !.rt_cb = TRUE],
        hw |-> [h EXCEPT !.dbgtrc = TRUE],
        ops |-> <<"_force_clean_cache_subsystem", "port_dwt_init", "_npu_internal_reset",
                  "LL_ATON_RT_SetRuntimeCallback(_rt_callback)", "LL_ATON_RT_RuntimeInit",
                  "LL_ATON_RT_Init_Network">>,
        ret |-> 0]
  ELSE [inst |-> i, rt |-> r, hw |-> h,
        ops |-> IF mode = 2 THEN <<"_force_clean_cache_subsystem">> ELSE <<>>,
        ret |-> 0]

\* npu_init: the instance, the runtime and the hardware after the call
\* ops are the calls it makes, in order
npu_init(i, r, h, mode) ==
  IF mode = 0
  THEN [inst |-> [i EXCEPT !.state = 0],
        rt |-> [r EXCEPT !.net_init = FALSE, !.rt_init = FALSE, !.rt_cb = FALSE],
        hw |-> IF r.rt_cb /\ r.rt_init THEN [h EXCEPT !.dbgtrc = FALSE] ELSE h,
        ops |-> <<"LL_ATON_RT_DeInit_Network", "LL_ATON_RT_RuntimeDeInit",
                  "LL_ATON_RT_SetRuntimeCallback(NULL)">>,
        ret |-> 0]
  ELSE IF mode = 1
  THEN [inst |-> [i EXCEPT !.state = 1],
        rt |-> [r EXCEPT !.net_init = TRUE, !.rt_init = TRUE, !.rt_cb = TRUE],
        hw |-> [h EXCEPT !.dbgtrc = TRUE],
        ops |-> <<"_force_clean_cache_subsystem", "port_dwt_init", "_npu_internal_reset",
                  "LL_ATON_RT_SetRuntimeCallback(_rt_callback)", "LL_ATON_RT_RuntimeInit",
                  "LL_ATON_RT_Init_Network">>,
        ret |-> 0]
  ELSE [inst |-> i, rt |-> r, hw |-> h,
        ops |-> IF mode = 2 /\ i.state = 1 THEN <<"_force_clean_cache_subsystem">>
                ELSE <<>>,
        ret |-> 0]

\* a registration that also clears the run options
npu_set_callback_reset(i, cb) == [i EXCEPT !.user_cb = cb, !.option = {}]

\* npu_set_callback
npu_set_callback(i, cb) == [i EXCEPT !.user_cb = cb]

IdleRt ==
  [epoch_cb |-> FALSE, rt_cb |-> FALSE, rt_init |-> FALSE, net_init |-> FALSE,
   unit |-> 0, phase |-> "IDLE", asleep |-> FALSE]

ZeroCmdCtx ==
  [observer_is_enabled |-> FALSE, emit_intermediate_data |-> FALSE,
   simple_value |-> FALSE, debug |-> FALSE, cur_epoch_num |-> 0]

NoReq == [name |-> "<none>", param |-> {}, opt |-> {}]

NoIo == [idx |-> 0, nb |-> -1, size |-> 0, ran |-> FALSE]

\* a call of an entry point: its arguments, the instance state it found, the
\* runtime and cache operations it made (ops), the cache range operations of a
\* run (mem) and what it returned
Call(fn, arg, state0, ops, mem, out) ==
  [fn |-> fn, arg |-> arg, state0 |-> state0, ops |-> ops, mem |-> mem, out |-> out]

NoCall == Call("none", <<>>, 0, <<>>, <<>>, <<>>)

\* _prepare_input_buffers: the cache range operations, in order
prepare_input_buffers(n) ==
  [k \in 1..n.n_inputs |->
     [op |-> "mcu_cache_clean_invalidate_range", addr |-> n.in_bufs[k].addr, at |-> 0]]
  \o [k \in 1..n.n_outputs |->
     [op |-> "mcu_cache_invalidate_range", addr |-> n.out_bufs[k].addr, at |-> 0]]

\* ------------------------------------------------ the control loop adapter

CONTROL_FREQUENCY_MULTIPLE == 5
ACTION_HISTORY_LENGTH == 32
ActionsPerStep == 4   \* the second dimension of action_history

MaxTick == 11

RECURSIVE Gcd(_, _)
Gcd(a, b) == IF b = 0 THEN a ELSE Gcd(b, a % b)

\* a value of action_history, a non-negative fraction in lowest terms (the
\* rounding of the float operations is left out)
Frac(n, d) == [num |-> n \div Gcd(n, d), den |-> d \div Gcd(n, d)]

ZeroRow == [j \in 1..ActionsPerStep |-> Frac(0, 1)]

\* action_history of static storage, and after rl_tools_init
ZeroHistory == [i \in 1..ACTION_HISTORY_LENGTH |-> ZeroRow]

\* m_outputs[0][0..3] as read after a run of the network
OutputSamples == {<<1, 2, 3, 4>>, <<3, 0, 1, 2>>}

\* a control loop that takes every call for the first of its period
substep_first(tick) == 0

\* rl_tools_control: "int substep = controller_tick % CONTROL_FREQUENCY_MULTIPLE"
substep(tick) == tick % CONTROL_FREQUENCY_MULTIPLE

\* rl_tools_control: the loop that moves every row but the first one place
\* toward index 0; the last row keeps its content
ShiftHistory(h) ==
  [i \in 1..ACTION_HISTORY_LENGTH |->
     IF i < ACTION_HISTORY_LENGTH THEN h[i + 1] ELSE h[i]]

\* rl_tools_control: value *= substep; value += output; value /= substep + 1
UpdateLast(value, sub, out) ==
  Frac(value.num * sub + out * value.den, value.den * (sub + 1))

\* rl_tools_control from the history update on: the tick and the history
\* after the call
rl_tools_control(tick, h, out) ==
  LET sub == substep(tick)
      moved == IF sub = 0 THEN ShiftHistory(h) ELSE h
  IN [tick |-> tick + 1,
      history |-> [moved EXCEPT ![ACTION_HISTORY_LENGTH] =
                     [j \in 1..ActionsPerStep |->
                        UpdateLast(moved[ACTION_HISTORY_LENGTH][j], sub, out[j])]]]

\* what every start state shares: static storage is zero, no counter runs
InitCommon ==
  /\ controller_tick = 0
  /\ action_history = ZeroHistory
  /\ g = ZeroCtx
  /\ hw \in {[free |-> FALSE, clk |-> 0, burst |-> FALSE, streng |-> "off",
              cacheEn |-> e, cacheCnt |-> FALSE, dbgtrc |-> FALSE] : e \in BOOLEAN}
  /\ pc = "idle"
  /\ caller = "api"
  /\ loc = [should_be_deinit |-> FALSE, ret |-> 0]
  /\ counters = ZeroCounters
  /\ evlog = <<>>
  /\ usercalls = <<>>
  /\ hwOps = {}
  /\ nArm = 0
  /\ nDrain = 0
  /\ lastDrain = <<>>
  /\ ctx = ZeroCmdCtx
  /\ req = NoReq
  /\ io = NoIo
  /\ sent = <<>>

\* after npu_get_instance_by_index, the caller having set the option word
InitDriver ==
  /\ InitCommon
  /\ call = NoCall
  /\ net \in {Network(1, 1, nu) : nu \in 1..MaxUnits}
  /\ inst \in {[state |-> 0, user_cb |-> "NULL", option |-> m] : m \in Modes}
  /\ rt = IdleRt

\* ------------------------------------------------------- messages to the peer

Msg(kind, state, err, flags, val) ==
  [kind |-> kind, state |-> state, err |-> err, flags |-> flags, val |-> val,
   addr |-> <<>>]

\* aiPbMgrSendAck
Ack(state, val, err) == Msg("ack", state, err, {}, val)

\* a tensor message that carries the content whatever the flags
send_ai_io_tensor_full(state, buf, flags) ==
  [Msg("tensor", state, "E_NONE", flags, buf.size) EXCEPT !.addr = buf.addr]

\* send_ai_io_tensor: the tensor message of a buffer
send_ai_io_tensor(state, buf, flags) ==
  [Msg("tensor", state, "E_NONE", flags,
       IF "NO_DATA" \in flags THEN 0 ELSE buf.size) EXCEPT !.addr = buf.addr]

\* ------------------------------------------------------ the observer callback

DumpableNames == {}   \* _dumpable_tensor_name

\* a filter that lets every buffer through
buffer_is_filtered_never(c, buf) == FALSE

\* _buffer_is_filtered
buffer_is_filtered(c, buf) ==
  IF c.emit_intermediate_data = FALSE THEN TRUE
  ELSE buf.name \notin DumpableNames

\* the first n entries of a sequence
Head16(q, n) == IF Len(q) <= n THEN q ELSE SubSeq(q, 1, n)

\* _find_cdt_ll_buffers: the buffers associated with unit k, the tracked
\* epoch number being epoch_num
find_cdt_ll_buffers(epoch_num, k) ==
  LET eb == net.epochs[k]
      next_num == IF k < net.n_epochs THEN net.epochs[k + 1].epoch_num
                  ELSE SentinelEpochNum
      extra == IF eb.epoch_num > 0 /\ epoch_num > 0 /\ next_num # epoch_num + 1
               THEN epoch_num + 1 ELSE 0
      IntOk(b) == (b.epoch = epoch_num \/ b.epoch = extra) /\ b.valid
      OutOk(b) == b.epoch = epoch_num /\ b.valid
  IN IF eb.epoch_num > 0 /\ next_num = eb.epoch_num
     THEN <<>>
     ELSE Head16(SelectSeq(net.internals, IntOk) \o SelectSeq(net.out_bufs, OutOk),
                 MAX_CDT_LL_BUFFERS)

\* an operator type that never tells the absence of tensors
get_node_type_plain(n_cdts_buffers) == {"INTERNAL"}

\* _get_node_type: the flags of the operator type
get_node_type(n_cdts_buffers) ==
  {"INTERNAL"} \cup (IF n_cdts_buffers = 0 THEN {"WITHOUT_TENSOR"} ELSE {})

\* npu_dump_tensors_cb, the tensor messages of the associated buffers
DumpTensors(c, bufs) ==
  [pos \in 1..Len(bufs) |->
     send_ai_io_tensor("S_PROCESSING", bufs[pos],
       {"INTERNAL"} \cup (IF buffer_is_filtered(c, bufs[pos]) THEN {"NO_DATA"} ELSE {})
                    \cup (IF pos = Len(bufs) THEN {"LAST"} ELSE {}))]

\* npu_dump_tensors_cb: the tracked epoch number after the call
DumpEpochNum(c, k) ==
  IF net.epochs[k].epoch_num >= 0 THEN net.epochs[k].epoch_num ELSE c.cur_epoch_num

\* npu_dump_tensors_cb: the cache range operations of the call, "at" being
\* the number of events handled before it
DumpCacheOps(c, ctype, k, at) ==
  IF ctype = "POST_END"
  THEN LET bufs == find_cdt_ll_buffers(DumpEpochNum(c, k), k)
           Kept(b) == ~buffer_is_filtered(c, b)
       IN [pos \in 1..Len(SelectSeq(bufs, Kept)) |->
             [op |-> "mcu_cache_clean_invalidate_range",
              addr |-> SelectSeq(bufs, Kept)[pos].addr, at |-> at]]
  ELSE <<>>

RECURSIVE Or16(_, _, _)
\* the bitwise or of the n low bits of a and b
Or16(a, b, n) ==
  IF n = 0 THEN 0
  ELSE (IF a % 2 = 1 \/ b % 2 = 1 THEN 1 ELSE 0) + 2 * Or16(a \div 2, b \div 2, n - 1)

\* epoch_block->last_epoch_num << 16 | ctx->cur_epoch_num, as the two 16-bit
\* halves of the 32-bit id: cur is an int16_t promoted to int, so a negative
\* one has all the bits of its high half set
OpId(last, cur) ==
  [hi |-> Or16(last % 65536, (cur \div 65536) % 65536, 16),
   lo |-> Or16(0, cur % 65536, 16)]

\* npu_dump_tensors_cb: the messages sent by the call
DumpMessages(c, ctype, k) ==
  IF ctype = "POST_END"
  THEN LET cur == DumpEpochNum(c, k)
           bufs == find_cdt_ll_buffers(cur, k)
       IN <<Msg("op", "S_PROCESSING", "E_NONE", get_node_type(Len(bufs)),
                OpId(net.epochs[k].last_epoch_num, cur))>>
            \o DumpTensors(c, bufs)
  ELSE <<>>

\* g_npu_exec_ctx.user_cb(ctype, idx, epoch_block, counters)
UserCallback(cb, ctype, idx, k, cnt) ==
  /\ usercalls' = IF cb = "NULL" THEN usercalls
                  ELSE Append(usercalls, [ctype |-> ctype, idx |-> idx, counters |-> cnt])
  /\ ctx' = IF cb = "dump" THEN [ctx EXCEPT !.cur_epoch_num = DumpEpochNum(ctx, k)]
            ELSE ctx
  /\ sent' = IF cb = "dump" THEN sent \o DumpMessages(ctx, ctype, k) ELSE sent
  /\ call' = IF cb = "dump"
             THEN [call EXCEPT !.mem = @ \o DumpCacheOps(ctx, ctype, k, Len(evlog))]
             ELSE call

\* ---------------------------------------------------------- _epoch_callback

\* _epoch_callback whose third test repeats the fourth
EpochBranch_dup(ctype) ==
  IF ctype = "PRE_START" THEN "PRE_START"
  ELSE IF ctype = "POST_START" THEN "POST_START"
  ELSE IF ctype = "POST_END" THEN "PRE_END"
  ELSE IF ctype = "POST_END" THEN "POST_END"
  ELSE "NONE"

\* the branch of _epoch_callback taken for a callback type
EpochBranch(ctype) ==
  IF ctype = "PRE_START" THEN "PRE_START"
  ELSE IF ctype = "POST_START" THEN "POST_START"
  ELSE IF ctype = "PRE_END" THEN "PRE_END"
  ELSE IF ctype = "POST_END" THEN "POST_END"
  ELSE "NONE"

\* the NPU clock counter counts while it runs
ClockAdvance(h, d) == IF h.free THEN [h EXCEPT !.clk = @ + d] ELSE h

\* the counter read at the entry of _epoch_callback
EntryRead(fmt) == IF ReadsFreeCounter(fmt) THEN {"free.read"} ELSE {}

\* the index of the unit that follows
PostEndIndex_next(c) == c.exec_epoch_idx

\* the index given to the user callback at POST_END
PostEndIndex(c) == c.exec_epoch_idx - 1

cb_PRE_START(k, ts, h, cfg) ==
  LET arm == IF USE_NPU_COUNTERS THEN npu_counters_PRE_START(g.mode, h, cfg)
             ELSE [fmt |-> ZeroFmt, hw |-> h, ops |-> {}]
  IN /\ g' = [g EXCEPT !.cur_epoch.npu_core = 0,
                       !.cpu_cycles_all = @ + ts,
                       !.cur_epoch.counter_fmt = arm.fmt,
                       !.exec_epoch_idx = @ + 1]
     /\ UserCallback(g.user_cb, "PRE_START", g.exec_epoch_idx, k, FALSE)
     /\ hw' = reset_npu_free_counter(arm.fmt, arm.hw)
     /\ hwOps' = hwOps \cup EntryRead(g.cur_epoch.counter_fmt) \cup arm.ops
                   \cup (IF "EPOCH_LEN" \in arm.fmt.opts THEN {"free.reset"} ELSE {})
     /\ nArm' = IF arm.ops # {} THEN nArm + 1 ELSE nArm
     /\ evlog' = Append(evlog, [ev |-> "PRE_START", idx |-> g.exec_epoch_idx])
     /\ UNCHANGED <<nDrain, lastDrain>>

cb_POST_START(k, ts, h) ==
  LET ts_npu == get_cycles_npu_free_counter(g.cur_epoch.counter_fmt, h)
  IN /\ g' = [g EXCEPT !.cur_epoch.npu_start = ts_npu,
                       !.cpu_cycles_start = @ + ts,
                       !.cur_epoch.cpu_start = ts]
     /\ hw' = h
     /\ hwOps' = hwOps \cup EntryRead(g.cur_epoch.counter_fmt)
     /\ evlog' = Append(evlog, [ev |-> "POST_START", idx |-> g.exec_epoch_idx - 1])
     /\ UNCHANGED <<nArm, nDrain, lastDrain, usercalls, call, ctx, sent>>

cb_PRE_END(k, ts, h) ==
  LET ts_npu == get_cycles_npu_free_counter(g.cur_epoch.counter_fmt, h)
      core == ts_npu - g.cur_epoch.npu_start
  IN /\ g' = [g EXCEPT !.cur_epoch.npu_core = core,
                       !.cur_epoch.npu_end = ts_npu,
                       !.npu_cycles_all = @ + core,
                       !.cpu_cycles_npu = @ + ts,
                       !.cur_epoch.cpu_core = ts]
     /\ hw' = h
     /\ hwOps' = hwOps \cup EntryRead(g.cur_epoch.counter_fmt)
     /\ evlog' = Append(evlog, [ev |-> "PRE_END", idx |-> g.exec_epoch_idx - 1])
     /\ UNCHANGED <<nArm, nDrain, lastDrain, usercalls, call, ctx, sent>>

cb_POST_END(k, ts, h) ==
  LET ts_npu == get_cycles_npu_free_counter(g.cur_epoch.counter_fmt, h)
      drain == IF g.mode # {} THEN npu_counters_POST_END(g.cur_epoch.counter_fmt, h)
               ELSE [hw |-> h, ops |-> <<>>]
  IN /\ g' = [g EXCEPT !.cur_epoch.npu_end = ts_npu - @,
                       !.cpu_cycles_end = @ + ts,
                       !.cur_epoch.cpu_end = ts]
     /\ hw' = drain.hw
     /\ hwOps' = hwOps \cup EntryRead(g.cur_epoch.counter_fmt)
                   \cup {drain.ops[i] : i \in 1..Len(drain.ops)}
     /\ nDrain' = IF drain.ops # <<>> THEN nDrain + 1 ELSE nDrain
     /\ lastDrain' = drain.ops
     /\ UserCallback(g.user_cb, "POST_END", PostEndIndex(g), k, TRUE)
     /\ evlog' = Append(evlog, [ev |-> "POST_END", idx |-> g.exec_epoch_idx - 1])
     /\ UNCHANGED nArm

\* _epoch_callback(ctype, nn_instance, epoch_block) for unit k
epoch_callback(ctype, k, ts, d, cfg) ==
  LET h == ClockAdvance(hw, d)
      br == EpochBranch(ctype)
  IN IF br = "PRE_START" THEN cb_PRE_START(k, ts, h, cfg)
     ELSE IF br = "POST_START" THEN cb_POST_START(k, ts, h)
     ELSE IF br = "PRE_END" THEN cb_PRE_END(k, ts, h)
     ELSE IF br = "POST_END" THEN cb_POST_END(k, ts, h)
     ELSE /\ hw' = h
          /\ UNCHANGED <<g, hwOps, evlog, nArm, nDrain, lastDrain, usercalls, call, ctx, sent>>

\* the runtime raises a callback: the registered one runs, or nothing does
RaiseEpochEvent(ctype, ts, d, cfg) ==
  IF rt.epoch_cb
  THEN epoch_callback(ctype, rt.unit, ts, d, cfg)
  ELSE /\ hw' = ClockAdvance(hw, d)
       /\ UNCHANGED <<g, hwOps, evlog, nArm, nDrain, lastDrain, usercalls, call, ctx, sent>>

\* ------------------------------------------- LL_ATON_RT_RunEpochBlock steps

InLoop == pc = "run_loop"

\* the unit is about to be dispatched
RtPreStart ==
  /\ InLoop /\ rt.phase = "PRE_START"
  /\ \E ts \in DwtSamples, d \in NpuTicks, cfg \in StrengCounts :
       RaiseEpochEvent("PRE_START", ts, d, cfg)
  /\ rt' = [rt EXCEPT !.phase = "POST_START"]
  /\ UNCHANGED <<adapter, net, inst, pc, caller, loc, counters, req, io>>

\* the unit has been dispatched
RtPostStart ==
  /\ InLoop /\ rt.phase = "POST_START"
  /\ \E ts \in DwtSamples, d \in NpuTicks : RaiseEpochEvent("POST_START", ts, d, 0)
  /\ rt' = [rt EXCEPT !.phase = "BUSY"]
  /\ UNCHANGED <<adapter, net, inst, pc, caller, loc, counters, req, io>>

\* RunEpochBlock returns LL_ATON_RT_WFE: npu_run calls LL_ATON_OSAL_WFE
RtWaitForEvent ==
  /\ InLoop /\ rt.phase = "BUSY" /\ ~rt.asleep
  /\ rt' = [rt EXCEPT !.asleep = TRUE]
  /\ UNCHANGED <<adapter, net, inst, g, hw, pc, caller, loc, counters, evlog, usercalls, call,
                 hwOps, nArm, nDrain, lastDrain, ctx, req, io, sent>>

\* a hardware event wakes the CPU; the unit has completed or is still busy
RtWake ==
  /\ InLoop /\ rt.phase = "BUSY" /\ rt.asleep
  /\ \E done \in BOOLEAN :
       rt' = [rt EXCEPT !.asleep = FALSE, !.phase = IF done THEN "PRE_END" ELSE "BUSY"]
  /\ UNCHANGED <<adapter, net, inst, g, hw, pc, caller, loc, counters, evlog, usercalls, call,
                 hwOps, nArm, nDrain, lastDrain, ctx, req, io, sent>>

\* the unit's completion has been observed
RtPreEnd ==
  /\ InLoop /\ rt.phase = "PRE_END"
  /\ \E ts \in DwtSamples, d \in NpuTicks : RaiseEpochEvent("PRE_END", ts, d, 0)
  /\ rt' = [rt EXCEPT !.phase = "POST_END"]
  /\ UNCHANGED <<adapter, net, inst, pc, caller, loc, counters, req, io>>

\* the unit has ended: the next one is taken, or the network is done
RtPostEnd ==
  /\ InLoop /\ rt.phase = "POST_END"
  /\ \E ts \in DwtSamples, d \in NpuTicks : RaiseEpochEvent("POST_END", ts, d, 0)
  /\ rt' = IF rt.unit < net.n_epochs
           THEN [rt EXCEPT !.unit = @ + 1, !.phase = "PRE_START"]
           ELSE [rt EXCEPT !.phase = "DONE"]
  /\ UNCHANGED <<adapter, net, inst, pc, caller, loc, counters, req, io>>

\* -------------------------------------------------------------------- npu_run

\* npu_run on an instance taken as installed whatever its state
ShouldBeDeinit_never(i) == FALSE

\* npu_run: whether the instance is installed for this run and torn down after
ShouldBeDeinit(i) == i.state = 0

\* npu_run(i, counters) up to the first LL_ATON_RT_RunEpochBlock, called by who
\* an npu_run that installs the epoch callback for every instance
WithCallback_always(i) == TRUE

\* npu_run: "if (instance->user_cb)"
WithCallback(i) == i.user_cb # "NULL"

NpuRunEnter(who, i) ==
  LET auto == ShouldBeDeinit(i)
      ini == IF auto THEN npu_init(i, rt, hw, 1)
             ELSE [inst |-> i, rt |-> rt, hw |-> hw, ops |-> <<>>]
      withCb == WithCallback(ini.inst)
  IN /\ counters' = ZeroCounters
     /\ loc' = [should_be_deinit |-> auto, ret |-> 0]
     /\ inst' = ini.inst
     /\ g' = IF withCb
             THEN [ZeroCtx EXCEPT !.user_cb = ini.inst.user_cb, !.mode = ini.inst.option]
             ELSE ZeroCtx
     /\ rt' = [ini.rt EXCEPT !.epoch_cb = IF withCb THEN TRUE ELSE @,
                             !.unit = 1, !.phase = "PRE_START", !.asleep = FALSE]
     /\ hw' = ini.hw
     /\ caller' = who
     /\ pc' = "run_loop"
     /\ evlog' = <<>>
     /\ usercalls' = <<>>
     /\ hwOps' = {}
     /\ nArm' = 0
     /\ nDrain' = 0
     /\ lastDrain' = <<>>
     /\ call' = Call("npu_run", <<>>, i.state, IF auto THEN ini.ops ELSE <<>>,
                     prepare_input_buffers(net), <<>>)

\* a total chosen on the tick difference alone
ReportedCpuAll_tick(cb, tick, cycles) ==
  IF tick < SHORT_RUN_TICKS THEN cycles ELSE tick * CyclesPerTick

\* the total CPU cycle count npu_run reports
ReportedCpuAll(cb, tick, cycles) ==
  IF cb # "NULL" \/ tick < SHORT_RUN_TICKS THEN cycles ELSE tick * CyclesPerTick

\* a loop that a busy accelerator ends as well
LoopEnds_busy(ret) == ret \in {"DONE", "BUSY"}

\* npu_run: "while (ll_aton_rt_ret != LL_ATON_RT_DONE)"
LoopEnds(ret) == ret = "DONE"

\* an epoch callback that stays registered after the run
ClearEpochCallback_keep(r) == r

\* npu_run: LL_ATON_RT_SetEpochCallback(NULL, instance->impl)
ClearEpochCallback(r) == [r EXCEPT !.epoch_cb = FALSE]

\* npu_run after the loop: RunEpochBlock has returned LL_ATON_RT_DONE
NpuRunExit ==
  /\ InLoop /\ LoopEnds(rt.phase)
  /\ \E ts \in DwtSamples, tick \in TickSamples :
       LET fin == IF loc.should_be_deinit
                  THEN npu_init(inst, ClearEpochCallback(rt), hw, 0)
                  ELSE [inst |-> inst, rt |-> ClearEpochCallback(rt), hw |-> hw,
                        ops |-> <<>>]
           all == g.cpu_cycles_all + ts + g.cpu_cycles_start + g.cpu_cycles_npu
                    + g.cpu_cycles_end
       IN /\ inst' = fin.inst
          /\ rt' = [fin.rt EXCEPT !.phase = "IDLE", !.unit = 0]
          /\ hw' = fin.hw
          /\ g' = [g EXCEPT !.cpu_cycles_all = all, !.user_cb = "NULL"]
          /\ counters' = [cpu_all |-> ReportedCpuAll(inst.user_cb, tick, all),
                          cpu_start |-> g.cpu_cycles_start,
                          cpu_core |-> g.cpu_cycles_npu,
                          cpu_end |-> g.cpu_cycles_end,
                          extra |-> g.npu_cycles_all]
          /\ loc' = [loc EXCEPT !.ret = tick]
          /\ call' = [call EXCEPT !.ops = @ \o fin.ops, !.out = <<tick>>]
  /\ pc' = IF caller = "api" THEN "idle" ELSE "report"
  /\ UNCHANGED <<adapter, net, caller, evlog, usercalls, hwOps, nArm, nDrain, lastDrain,
                 ctx, req, io, sent>>

NpuRunSteps ==
  \/ RtPreStart
  \/ RtPostStart
  \/ RtWaitForEvent
  \/ RtWake
  \/ RtPreEnd
  \/ RtPostEnd
  \/ NpuRunExit

\* --------------------------------------------- the wrapper's entry points

\* a caller runs the instance
ApiRun ==
  /\ pc = "idle"
  /\ NpuRunEnter("api", inst)
  /\ UNCHANGED <<adapter, net, ctx, req, io, sent>>

\* a caller registers or clears the user callback
ApiSetCallback ==
  /\ pc = "idle"
  /\ \E cb \in {"NULL", "user"} :
       /\ inst' = npu_set_callback(inst, cb)
       /\ call' = Call("npu_set_callback", <<cb>>, inst.state, <<>>, <<>>, <<0>>)
  /\ UNCHANGED <<adapter, net, g, rt, hw, pc, caller, loc, counters, evlog, usercalls,
                 hwOps, nArm, nDrain, lastDrain, ctx, req, io, sent>>

\* a caller installs, tears down or soft-resets the instance
ApiInit ==
  /\ pc = "idle"
  /\ \E mode \in 0..2 :
       LET r == npu_init(inst, rt, hw, mode)
       IN /\ inst' = r.inst /\ rt' = r.rt /\ hw' = r.hw
          /\ call' = Call("npu_init", <<mode>>, inst.state, r.ops, <<>>, <<r.ret>>)
  /\ UNCHANGED <<adapter, net, g, pc, caller, loc, counters, evlog, usercalls,
                 hwOps, nArm, nDrain, lastDrain, ctx, req, io, sent>>

NextDriver == ApiRun \/ ApiSetCallback \/ ApiInit \/ NpuRunSteps

SpecDriver == InitDriver /\ [][NextDriver]_vars

\* the wake-up at which the accelerator has completed the unit
RtWakeDone == RtWake /\ rt'.phase = "PRE_END"

\* after npu_get_instance_by_index, with no counter or with the clock and
\* cache counters asked
InitLive ==
  /\ InitCommon
  /\ call = NoCall
  /\ net \in {Network(1, 1, nu) : nu \in 1..MaxUnits}
  /\ inst \in {[state |-> 0, user_cb |-> "NULL", option |-> m] :
                 m \in {{}, {"EPOCH_LEN", "NPU_CACHE"}}}
  /\ rt = IdleRt

\* the CPU keeps executing npu_run once it is entered, and an accelerator
\* that is waited for again and again completes its unit
SpecLive ==
  InitLive /\ [][NextDriver]_vars /\ WF_vars(NpuRunSteps) /\ SF_vars(RtWakeDone)

\* ------------------------------------------------------- the Run command

NetworkName == "network"
ReqNames == {NetworkName, "", "other"}
ReqParams ==
  {{}, {"PER_LAYER"}, {"PER_LAYER", "WITH_DATA"}, {"CONST_VALUE"}, {"PERF"}, {"DEBUG"}}
ReqOpts == {{}, {"EPOCH_LEN", "NPU_CACHE"}}

\* the byte counts aiPbMgrReceiveData may report for an expected size
ReadLens(size) == {0, 500, size}

\* the lookup taking any non-empty name for a bound one
aiExecCtx_any(name) == name # ""

\* aiExecCtx(nn_name, -1): whether a context is found
aiExecCtx(name) == name # "" /\ name = NetworkName

\* a context that keeps the observer of the command before
set_context_keep(param) ==
  [cur_epoch_num |-> -1,
   observer_is_enabled |-> ctx.observer_is_enabled \/ "PER_LAYER" \in param,
   emit_intermediate_data |-> {"PER_LAYER", "WITH_DATA"} \subseteq param,
   simple_value |-> "CONST_VALUE" \in param,
   debug |-> "DEBUG" \in param]

\* _set_context
set_context(param) ==
  [cur_epoch_num |-> -1,
   observer_is_enabled |-> "PER_LAYER" \in param,
   emit_intermediate_data |-> {"PER_LAYER", "WITH_DATA"} \subseteq param,
   simple_value |-> "CONST_VALUE" \in param,
   debug |-> "DEBUG" \in param]

\* the state aiPbCmdNNRun asks the i-th input tensor to be acknowledged with
InputState(i) == IF i = net.n_inputs THEN "S_PROCESSING" ELSE "S_WAITING"

\* the wait for the peer's ack tested on S_WAITING alone
NeedsPeerAck_waiting(state) == state = "S_WAITING"

\* receive_ai_io_tensor: whether aiPbMgrWaitAck is called after the ack
NeedsPeerAck(state) == state = "S_WAITING" \/ state = "S_PROCESSING"

\* the input loop without its return on a failed receive
RunAborts_never(res) == FALSE

\* aiPbCmdNNRun: "if (res != true) return;"
RunAborts(res) == res # TRUE

\* an input loop left after its first turn
AfterReceive_first(res, i) ==
  IF res # TRUE THEN [pc |-> "idle", idx |-> i] ELSE [pc |-> "exec", idx |-> i]

\* aiPbCmdNNRun: where the input loop goes once receive_ai_io_tensor has returned
AfterReceive(res, i) ==
  IF RunAborts(res) THEN [pc |-> "idle", idx |-> i]
  ELSE IF i < net.n_inputs THEN [pc |-> "recv", idx |-> i + 1]
  ELSE [pc |-> "exec", idx |-> i]

\* aiPbCmdNNRun up to the first receive: the request is read, the context
\* looked up and set, and the device says it is ready
CmdRun ==
  /\ pc = "idle"
  /\ \E name \in ReqNames, param \in ReqParams, opt \in ReqOpts :
       /\ req' = [name |-> name, param |-> param, opt |-> opt]
       /\ IF ~aiExecCtx(name)
          THEN /\ sent' = <<Ack("S_ERROR", "E_INVALID_PARAM", "E_INVALID_PARAM")>>
               /\ io' = NoIo
               /\ UNCHANGED <<ctx, inst, pc>>
          ELSE /\ ctx' = set_context(param)
               /\ inst' = [inst EXCEPT !.option = opt]
               /\ sent' = <<Ack("S_WAITING", net.in_bufs[1].size, "E_NONE")>>
               /\ io' = [NoIo EXCEPT !.idx = 1]
               /\ pc' = IF net.n_inputs >= 1 THEN "recv" ELSE "exec"
  /\ UNCHANGED <<adapter, net, g, rt, hw, caller, loc, counters, evlog, usercalls, call,
                 hwOps, nArm, nDrain, lastDrain>>

\* receive_ai_io_tensor for input io.idx, up to aiPbMgrWaitAck or its return
RecvTensor ==
  /\ pc = "recv"
  /\ LET i == io.idx
         buf == net.in_bufs[i]
         size == IF ctx.simple_value THEN buf.elsize ELSE buf.size
         state == InputState(i)
     IN \E nb \in ReadLens(size) :
          IF nb # size
          THEN /\ sent' = Append(sent, Ack("S_ERROR", nb, "E_INVALID_SIZE"))
               /\ pc' = AfterReceive(FALSE, i).pc
               /\ io' = [io EXCEPT !.idx = AfterReceive(FALSE, i).idx,
                                   !.nb = nb, !.size = size]
          ELSE /\ sent' = Append(sent, Ack(state, size, "E_NONE"))
               /\ pc' = IF NeedsPeerAck(state) THEN "wait_ack"
                        ELSE AfterReceive(TRUE, i).pc
               /\ io' = [io EXCEPT !.idx = IF NeedsPeerAck(state) THEN i
                                            ELSE AfterReceive(TRUE, i).idx,
                                   !.nb = nb, !.size = size]
  /\ UNCHANGED <<adapter, net, inst, g, rt, hw, caller, loc, counters, evlog, usercalls, call,
                 hwOps, nArm, nDrain, lastDrain, ctx, req>>

\* aiPbMgrWaitAck returns: the peer has acknowledged the device's ack
PeerAck ==
  /\ pc = "wait_ack"
  /\ pc' = AfterReceive(TRUE, io.idx).pc
  /\ io' = [io EXCEPT !.idx = AfterReceive(TRUE, io.idx).idx]
  /\ UNCHANGED <<adapter, net, inst, g, rt, hw, caller, loc, counters, evlog, usercalls, call,
                 hwOps, nArm, nDrain, lastDrain, ctx, req, sent>>

\* aiPbCmdNNRun, "3 - Processing": the observer is registered and npu_run called
ExecRun ==
  /\ pc = "exec"
  /\ NpuRunEnter("cmd", IF ctx.observer_is_enabled
                        THEN npu_set_callback(inst, "dump") ELSE inst)
  /\ io' = [io EXCEPT !.ran = TRUE]
  /\ UNCHANGED <<adapter, net, ctx, req, sent>>

\* aiPbCmdNNRun after npu_run: the callback is cleared and the report sent
Report ==
  /\ pc = "report"
  /\ inst' = npu_set_callback(inst, "NULL")
  /\ sent' = Append(sent, Msg("op", "S_PROCESSING", "E_NONE", {}, counters.cpu_all))
  /\ pc' = IF net.n_outputs >= 1 THEN "send" ELSE "idle"
  /\ io' = [io EXCEPT !.idx = 1]
  /\ UNCHANGED <<adapter, net, g, rt, hw, caller, loc, counters, evlog, usercalls, call,
                 hwOps, nArm, nDrain, lastDrain, ctx, req>>

\* the flags and the state of the i-th output tensor message
OutputFlags(i, param) ==
  {"OUTPUT"} \cup (IF "PERF" \in param THEN {"NO_DATA"} ELSE {})
             \cup (IF i = net.n_outputs THEN {"LAST"} ELSE {})

\* every output tensor message sent as the final one
OutputState_all(i) == "S_DONE"

\* the state of the i-th output tensor message
OutputState(i) == IF i = net.n_outputs THEN "S_DONE" ELSE "S_PROCESSING"

\* aiPbCmdNNRun, "5 - Send all output tensors": one turn of the loop
SendOutput ==
  /\ pc = "send"
  /\ sent' = Append(sent, send_ai_io_tensor(OutputState(io.idx), net.out_bufs[io.idx],
                                            OutputFlags(io.idx, req.param)))
  /\ pc' = IF io.idx < net.n_outputs THEN "send" ELSE "idle"
  /\ io' = [io EXCEPT !.idx = IF io.idx < net.n_outputs THEN @ + 1 ELSE @]
  /\ UNCHANGED <<adapter, net, inst, g, rt, hw, caller, loc, counters, evlog, usercalls, call,
                 hwOps, nArm, nDrain, lastDrain, ctx, req>>

\* after aiInit: every instance is installed by aiBootstrap
Init ==
  /\ InitCommon
  /\ call = NoCall
  /\ net \in Networks
  /\ LET r == npu_init([state |-> 0, user_cb |-> "NULL", option |-> {}], IdleRt, hw, 1)
     IN inst = r.inst /\ rt = r.rt

Next == CmdRun \/ RecvTensor \/ PeerAck \/ ExecRun \/ NpuRunSteps \/ Report \/ SendOutput

Spec == Init /\ [][Next]_vars

\* ------------------------------------------------- the lookup of a context

MaxNetworks == 2     \* NPU_NETWORK_NUMBER is at most this

\* info.name as a C string
NetworkChars == <<"n", "e", "t", "w", "o", "r", "k">>

\* the names a request can carry: none, empty, the network's, a proper prefix
\* of it, an extension of it, and one of its length but other content
NameArgs ==
  {[null |-> TRUE, str |-> <<>>]}
    \cup {[null |-> FALSE, str |-> n] :
            n \in {<<>>, NetworkChars, SubSeq(NetworkChars, 1, 3),
                   Append(NetworkChars, "s"),
                   [NetworkChars EXCEPT ![5] = "0"]}}

\* a slot of net_exec_ctx: unbound, or bound by aiInit
Slots == {[impl |-> FALSE, name |-> <<>>], [impl |-> TRUE, name |-> NetworkChars]}

\* net_exec_ctx
Tables == UNION {[1..n -> Slots] : n \in 1..MaxNetworks}

NullCtx == -1   \* the NULL aiExecCtx returns; a context is its index otherwise

strlen(str) == Len(str)

\* the character at k, the terminating NUL from the end of the string on
CharAt(str, k) == IF k <= Len(str) THEN str[k] ELSE "NUL"

\* strncmp: 0 when the first n characters are the same
strncmp(a, b, n) == IF \A k \in 1..n : CharAt(a, k) = CharAt(b, k) THEN 0 ELSE 1

\* the test of the loop without the comparison of the lengths
NameMatches_prefix(cur, nn_name) ==
  cur.impl /\ strncmp(cur.name, nn_name, strlen(cur.name)) = 0

\* aiExecCtx: the test of the loop on one slot
NameMatches(cur, nn_name) ==
  /\ cur.impl
  /\ strlen(cur.name) = strlen(nn_name)
  /\ strncmp(cur.name, nn_name, strlen(cur.name)) = 0

RECURSIVE ExecCtxLoop(_, _, _)
\* aiExecCtx: the loop over the slots, from idx on
ExecCtxLoop(tab, nn_name, idx) ==
  IF idx >= Len(tab) THEN NullCtx
  ELSE IF NameMatches(tab[idx + 1], nn_name) THEN idx
  ELSE ExecCtxLoop(tab, nn_name, idx + 1)

\* aiExecCtx(nn_name, pos) on the table tab
aiExecCtxOf(tab, nn, pos) ==
  IF nn.null THEN NullCtx
  ELSE IF nn.str = <<>>
  THEN IF pos >= 0 /\ pos < Len(tab) /\ tab[pos + 1].impl THEN pos ELSE NullCtx
  ELSE ExecCtxLoop(tab, nn.str, 0)

\* the calls of aiExecCtx, not yet made
ExecCtxCalls ==
  {Call("aiExecCtx", <<tab, nn, pos>>, 0, <<>>, <<>>, <<>>) :
     tab \in Tables, nn \in NameArgs, pos \in -1..MaxNetworks}

\* ------------------------------------------------ the reception of a tensor

MaxBufBytes == 4

\* the bytes a peer sends, and the byte a buffer holds before
Bytes == {"x", "y"}
OldByte == "old"

\* the shapes of a buffer: one or two dimensions
Shapes == UNION {[1..d -> 1..2] : d \in 1..2}

\* buffer descriptors: their address, size in bytes, shape and bits of an
\* element, and their memory
Buffers ==
  {b \in {[addr |-> <<"buf", 1>>, size |-> sz, shape |-> sh, nbits |-> nb,
            mem |-> [k \in 1..sz |-> OldByte]] :
             sz \in 1..MaxBufBytes, sh \in Shapes, nb \in {8, 16, 32}} :
     b.nbits \div 8 <= b.size}

get_ll_buffer_size(buf) == buf.size

get_ll_element_size(buf) == buf.nbits \div 8

RECURSIVE NbElem(_, _)
\* _is_ll_buffer_valid: nb_elem, the product of the dimensions from i on
NbElem(shape, i) == IF i > Len(shape) THEN 1 ELSE shape[i] * NbElem(shape, i + 1)

\* _is_ll_buffer_valid
is_ll_buffer_valid(buf) ==
  get_ll_buffer_size(buf) = NbElem(buf.shape, 1) * get_ll_element_size(buf)

\* the size asked of aiPbMgrReceiveData
ReceiveSize(buf, simple_value) ==
  IF simple_value THEN get_ll_element_size(buf) ELSE get_ll_buffer_size(buf)

\* aiPbMgrReceiveData: the bytes read are written from the start of the buffer
ReceiveData(mem, data) ==
  [k \in 1..Len(mem) |-> IF k <= Len(data) THEN data[k] ELSE mem[k]]

\* memcpy of n bytes from offset r to offset w
memcpy(mem, w, r, n) ==
  [k \in 1..Len(mem) |-> IF k > w /\ k <= w + n THEN mem[r + (k - w)] ELSE mem[k]]

\* a loop that stops one element early
BroadcastEnd_short(buf, el_s) == (get_ll_buffer_size(buf) \div el_s) - 1

\* the bound of the broadcast loop
BroadcastEnd(buf, el_s) == get_ll_buffer_size(buf) \div el_s

RECURSIVE BroadcastLoop(_, _, _, _)
\* the broadcast loop from pos on: w_ptr is r_ptr + pos * el_s
BroadcastLoop(mem, el_s, pos, end) ==
  IF pos < end
  THEN BroadcastLoop(memcpy(mem, pos * el_s, 0, el_s), el_s, pos + 1, end)
  ELSE mem

\* receive_ai_io_tensor: the size asked, the bytes read, the result, the error
\* code of the ack and the memory of the buffer after the call, the peer
\* having sent data
receive_ai_io_tensor(buf, simple_value, data) ==
  LET size == ReceiveSize(buf, simple_value)
      got == ReceiveData(buf.mem, data)
  IN [size |-> size,
      nb_read |-> Len(data),
      res |-> Len(data) = size,
      err |-> IF Len(data) = size THEN "E_NONE" ELSE "E_INVALID_SIZE",
      mem |-> IF Len(data) = size /\ simple_value
              THEN BroadcastLoop(got, size, 1, BroadcastEnd(buf, size))
              ELSE got]

\* the calls of receive_ai_io_tensor, not yet made: the peer sends at most the
\* size asked
ReceiveCalls ==
  {Call("receive_ai_io_tensor", <<buf, sv, data>>, 0, <<>>, <<>>, <<>>) :
     buf \in Buffers, sv \in BOOLEAN,
     data \in UNION {[1..n -> Bytes] : n \in 0..MaxBufBytes}}

\* the calls of send_ai_io_tensor for an output, not yet made
SendCalls ==
  {Call("send_ai_io_tensor", <<buf, flags>>, 0, <<>>, <<>>, <<>>) :
     buf \in Buffers, flags \in {{"OUTPUT", "LAST"}, {"OUTPUT", "LAST", "NO_DATA"}}}

\* ------------------------------------------ the operator ids of the observer

MaxBlocks == 2

\* the epoch blocks of a network: epoch_num and last_epoch_num, negative for
\* the auxiliary ones
EpochBlocks ==
  {[epoch_num |-> e, last_epoch_num |-> l] : e \in {-2, -1, 1, 2}, l \in {-2, -1, 1, 2}}

RECURSIVE DumpOps(_, _, _)
\* npu_dump_tensors_cb called at POST_END of the blocks from k on, the tracked
\* epoch number being cur: the ids of the operator messages
DumpOps(blocks, k, cur) ==
  IF k > Len(blocks) THEN <<>>
  ELSE LET now == IF blocks[k].epoch_num >= 0 THEN blocks[k].epoch_num ELSE cur
       IN <<[cur |-> now, last |-> blocks[k].last_epoch_num,
             id |-> OpId(blocks[k].last_epoch_num, now)]>>
            \o DumpOps(blocks, k + 1, now)

\* the observed runs, not yet made
DumpCalls ==
  {Call("npu_dump_tensors_cb", <<blocks>>, 0, <<>>, <<>>, <<>>) :
     blocks \in UNION {[1..n -> EpochBlocks] : n \in 1..MaxBlocks}}

\* -------------------------------------- the buffers associated with a unit

MaxDumpBlocks == 2

\* the owner and the validity of a buffer descriptor
BufKinds == {<<0, TRUE>>, <<1, TRUE>>, <<2, TRUE>>, <<3, TRUE>>, <<1, FALSE>>}

\* the buffer tables of a network: short ones of every kind, and two with
\* more valid buffers of unit 1 than _cdts_buffers has slots
InternalTables ==
  UNION {[1..n -> BufKinds] : n \in 0..2}
    \cup {[i \in 1..n |-> <<1, TRUE>>] :
            n \in {MAX_CDT_LL_BUFFERS - 1, MAX_CDT_LL_BUFFERS + 1}}

OutputTables ==
  {<<>>, <<<<1, TRUE>>>>, <<<<2, TRUE>>>>, <<<<1, FALSE>>>>, <<<<1, TRUE>>, <<1, TRUE>>>>}

\* the epoch block arrays: auxiliary blocks have a negative epoch_num
BlockArrays == UNION {[1..n -> {-1, 1, 2, 3}] : n \in 1..MaxDumpBlocks}

\* a compiled network with these blocks and buffers
DumpNetwork(blocks, ints, outs) ==
  [n_inputs |-> 1, n_outputs |-> Len(outs), n_epochs |-> Len(blocks),
   epochs |-> [k \in 1..Len(blocks) |->
                [epoch_num |-> blocks[k], last_epoch_num |-> blocks[k]]],
   in_bufs |-> <<[name |-> "in", addr |-> <<"in", 1>>,
                  size |-> InputBytes, elsize |-> ElemBytes]>>,
   internals |-> [i \in 1..Len(ints) |->
                   [name |-> "act", addr |-> <<"act", i>>, epoch |-> ints[i][1],
                    valid |-> ints[i][2], size |-> InternalBytes]],
   out_bufs |-> [i \in 1..Len(outs) |->
                  [name |-> "out", addr |-> <<"out", i>>, epoch |-> outs[i][1],
                   valid |-> outs[i][2], size |-> OutputBytes]]]

DumpNetworks ==
  {DumpNetwork(b, i, o) : b \in BlockArrays, i \in InternalTables, o \in OutputTables}

RECURSIVE TrackedEpochNum(_)
\* ctx->cur_epoch_num when the observer is called for unit k: -1 from
\* _set_context, then the epoch_num of the last unit that had one
TrackedEpochNum(k) ==
  IF k = 1 THEN set_context({}).cur_epoch_num
  ELSE DumpEpochNum([cur_epoch_num |-> TrackedEpochNum(k - 1)], k - 1)

\* the observer called at POST_END of one unit, not yet made
DumpUnitCalls ==
  {Call("npu_dump_tensors_cb(POST_END)", <<k>>, 0, <<>>, <<>>, <<>>) :
     k \in 1..MaxDumpBlocks}

\* ------------------------------------- the context a command is served by

\* a Run command served by the first context when it names none
NNRunCtx_first(tab, nn) == aiExecCtxOf(tab, nn, 0)

\* aiPbCmdNNRun: aiExecCtx(req->name, -1)
NNRunCtx(tab, nn) == aiExecCtxOf(tab, nn, -1)

\* aiPbCmdNNRun on the table tab: the first message of the answer
aiPbCmdNNRun(tab, nn) ==
  IF NNRunCtx(tab, nn) = NullCtx
  THEN Ack("S_ERROR", "E_INVALID_PARAM", "E_INVALID_PARAM")
  ELSE Ack("S_WAITING", InputBytes, "E_NONE")

\* aiPbCmdNNInfo on the table tab: the answer, the model info of the context
\* found or an error
aiPbCmdNNInfo(tab, nn, param) ==
  LET c == aiExecCtxOf(tab, nn, param)
  IN IF c # NullCtx
     THEN [Msg("model_info", "S_IDLE", "E_NONE", {}, c) EXCEPT
             !.addr = tab[c + 1].name]
     ELSE Ack("S_ERROR", "E_INVALID_PARAM", "E_INVALID_PARAM")

\* the Run and ModelInfo commands, not yet served
CmdCalls ==
  {Call("aiPbCmdNNRun", <<tab, nn>>, 0, <<>>, <<>>, <<>>) :
     tab \in Tables, nn \in NameArgs}
    \cup {Call("aiPbCmdNNInfo", <<tab, nn, param>>, 0, <<>>, <<>>, <<>>) :
            tab \in Tables, nn \in NameArgs, param \in -1..MaxNetworks}

\* ------------------------------------------------- the instance of a model

\* the models compiled in: NN_Instance_Default alone
NbModels == 1

\* _get_nn_instance
get_nn_instance(idx) == IF idx > 1 THEN "NULL" ELSE "NN_Instance_Default"

\* npu_get_instance_by_index on the record p points to, <<>> being the null
\* pointer: the value returned and the record afterwards
npu_get_instance_by_index(idx, p) ==
  IF p = <<>> THEN [ret |-> -1, instance |-> p]
  ELSE LET i == get_nn_instance(idx)
       IN IF i = "NULL" THEN [ret |-> -2, instance |-> p]
          ELSE [ret |-> 0,
                instance |-> <<[impl |-> i, info |-> "network",
                                state |-> 0, user_cb |-> "NULL"]>>]

\* the records a caller may pass: fresh, or left by an earlier use
InstanceRecords ==
  {[impl |-> i, info |-> n, state |-> st, user_cb |-> cb] :
     i \in {"none", "NN_Instance_Default"}, n \in {"", "network"},
     st \in {0, 1}, cb \in {"NULL", "user"}}

\* the calls of npu_get_instance_by_index, not yet made
GetInstanceCalls ==
  {Call("npu_get_instance_by_index", <<idx, p>>, 0, <<>>, <<>>, <<>>) :
     idx \in (-2)..(NbModels + 2), p \in {<<>>} \cup {<<r>> : r \in InstanceRecords}}

\* --------------------------------- the specification of the control loop

RlToolsInit ==
  /\ controller_tick' = 0
  /\ action_history' = ZeroHistory
  /\ call' = Call("rl_tools_init", <<>>, controller_tick, <<>>, <<>>, <<0>>)
  /\ UNCHANGED <<net, inst, g, rt, hw, pc, caller, loc, counters, evlog, usercalls,
                 hwOps, nArm, nDrain, lastDrain, ctx, req, io, sent>>

RlToolsControl ==
  /\ controller_tick < MaxTick
  /\ \E out \in OutputSamples :
       LET r == rl_tools_control(controller_tick, action_history, out)
       IN /\ controller_tick' = r.tick
          /\ action_history' = r.history
          /\ call' = Call("rl_tools_control", <<out>>, controller_tick, <<>>, <<>>,
                          <<r.tick>>)
  /\ UNCHANGED <<net, inst, g, rt, hw, pc, caller, loc, counters, evlog, usercalls,
                 hwOps, nArm, nDrain, lastDrain, ctx, req, io, sent>>

InitAdapter ==
  /\ InitCommon
  /\ call = NoCall
  /\ net = Network(1, 1, 1)
  /\ inst = [state |-> 0, user_cb |-> "NULL", option |-> {}]
  /\ rt = IdleRt

NextAdapter == RlToolsInit \/ RlToolsControl

SpecAdapter == InitAdapter /\ [][NextAdapter]_vars

\* ------------------------------------------- the specification of the calls

otherVars == <<adapter, net, inst, g, rt, hw, pc, caller, loc, counters, evlog, usercalls,
               hwOps, nArm, nDrain, lastDrain, ctx, req, io, sent>>

InitCalls ==
  /\ InitCommon
  /\ inst = [state |-> 0, user_cb |-> "NULL", option |-> {}]
  /\ rt = IdleRt
  /\ \/ /\ net = Network(1, 1, 1)
        /\ call \in ExecCtxCalls \cup DumpCalls \cup SendCalls \cup GetInstanceCalls
                    \cup CmdCalls
                    \cup {c \in ReceiveCalls :
                            Len(c.arg[3]) <= ReceiveSize(c.arg[1], c.arg[2])}
     \/ /\ net \in DumpNetworks
        /\ call \in {c \in DumpUnitCalls : c.arg[1] <= net.n_epochs}

CallExecCtx ==
  /\ call.fn = "aiExecCtx" /\ call.out = <<>>
  /\ call' = [call EXCEPT !.out = <<aiExecCtxOf(call.arg[1], call.arg[2], call.arg[3])>>]
  /\ UNCHANGED otherVars

CallReceive ==
  /\ call.fn = "receive_ai_io_tensor" /\ call.out = <<>>
  /\ call' = [call EXCEPT
               !.out = <<receive_ai_io_tensor(call.arg[1], call.arg[2], call.arg[3])>>]
  /\ UNCHANGED otherVars

\* _set_context, then the observer called for every block of the run
CallDump ==
  /\ call.fn = "npu_dump_tensors_cb" /\ call.out = <<>>
  /\ call' = [call EXCEPT !.out = <<DumpOps(call.arg[1], 1, set_context({}).cur_epoch_num)>>]
  /\ UNCHANGED otherVars

CallSend ==
  /\ call.fn = "send_ai_io_tensor" /\ call.out = <<>>
  /\ call' = [call EXCEPT !.out = <<send_ai_io_tensor("S_DONE", call.arg[1], call.arg[2])>>]
  /\ UNCHANGED otherVars

CallGetInstance ==
  /\ call.fn = "npu_get_instance_by_index" /\ call.out = <<>>
  /\ call' = [call EXCEPT !.out = <<npu_get_instance_by_index(call.arg[1], call.arg[2])>>]
  /\ UNCHANGED otherVars

\* npu_dump_tensors_cb at POST_END of unit k of an observed run that sends
\* the content: the buffers it associates and the messages it sends
CallDumpUnit ==
  /\ call.fn = "npu_dump_tensors_cb(POST_END)" /\ call.out = <<>>
  /\ LET k == call.arg[1]
         c == [set_context({"PER_LAYER", "WITH_DATA"}) EXCEPT
                 !.cur_epoch_num = TrackedEpochNum(k)]
     IN call' = [call EXCEPT
                  !.out = <<[cur |-> DumpEpochNum(c, k),
                             bufs |-> find_cdt_ll_buffers(DumpEpochNum(c, k), k),
                             msgs |-> DumpMessages(c, "POST_END", k)]>>]
  /\ UNCHANGED otherVars

CallCmdRun ==
  /\ call.fn = "aiPbCmdNNRun" /\ call.out = <<>>
  /\ call' = [call EXCEPT !.out = <<aiPbCmdNNRun(call.arg[1], call.arg[2])>>]
  /\ UNCHANGED otherVars

CallCmdInfo ==
  /\ call.fn = "aiPbCmdNNInfo" /\ call.out = <<>>
  /\ call' = [call EXCEPT
               !.out = <<aiPbCmdNNInfo(call.arg[1], call.arg[2], call.arg[3])>>]
  /\ UNCHANGED otherVars

NextCalls ==
  \/ CallExecCtx \/ CallReceive \/ CallDump \/ CallSend \/ CallGetInstance
  \/ CallDumpUnit \/ CallCmdRun \/ CallCmdInfo

SpecCalls == InitCalls /\ [][NextCalls]_vars

\* ------------------------------------------------- properties of the driver

\* some unit of the current (or last) run has passed its PRE_START
UnitArmed == evlog # <<>>

\* the family bits of the counter format of the current unit
FmtFamilies == g.cur_epoch.counter_fmt.opts \cap FamilyOpts

\* C4: the events the epoch callback handles in a run are PRE_START,
\* POST_START, PRE_END, POST_END, once per executed unit and in that order:
\* the i-th event is the ((i-1) mod 4)-th callback type of unit (i-1) div 4,
\* so no event of a unit falls between the PRE_START and POST_END of another,
\* and a completed run has handled exactly four events per unit.
C4_EventOrder ==
  /\ \A i \in 1..Len(evlog) :
        /\ evlog[i].ev = Ctypes[((i - 1) % 4) + 1]
        /\ evlog[i].idx = (i - 1) \div 4
  /\ (rt.phase = "DONE" /\ rt.epoch_cb) => Len(evlog) = 4 * net.n_epochs

C4_Witness ==
  /\ rt.phase = "DONE" /\ rt.epoch_cb
  /\ net.n_epochs = MaxUnits
  /\ Len(evlog) = 4 * MaxUnits
  /\ evlog[Len(evlog)] = [ev |-> "POST_END", idx |-> MaxUnits - 1]

\* C5: for every mode, the counter format computed at PRE_START holds at most
\* one of the five family bits, and exactly one when the mode requests any of
\* them; the cache bit is set next to them whenever it is requested.
C5_OneFamily ==
  UnitArmed =>
    /\ Cardinality(FmtFamilies) <= 1
    /\ (g.mode \cap FamilyOpts # {}) => Cardinality(FmtFamilies) = 1
    /\ ("NPU_CACHE" \in g.cur_epoch.counter_fmt.opts) <=> ("NPU_CACHE" \in g.mode)

C5_Witness ==
  /\ UnitArmed
  /\ {"STRG_O_ACTIVE", "STRG_HENV", "BUSIF_RW_DATA", "NPU_CACHE"} \subseteq g.mode
  /\ FmtFamilies = {"STRG_O_ACTIVE"}
  /\ "NPU_CACHE" \in g.cur_epoch.counter_fmt.opts

FirstLane(mode) ==
  IF "STRG_I_ACTIVE" \in mode THEN "STRG_I_ACTIVE"
  ELSE IF "STRG_O_ACTIVE" \in mode THEN "STRG_O_ACTIVE"
  ELSE IF "STRG_ACTIVE" \in mode THEN "STRG_ACTIVE"
  ELSE "STRG_HENV"

\* C8: when the mode requests lane families, the only one in the counter
\* format is the first requested of STRG_I_ACTIVE, STRG_O_ACTIVE, STRG_ACTIVE,
\* STRG_HENV, and the EPOCH_LEN bit is set and the NPU clock counter started
\* with it, whether or not EPOCH_LEN was requested.
C8_LanePriority ==
  (UnitArmed /\ g.mode \cap LaneOpts # {}) =>
    /\ g.cur_epoch.counter_fmt.opts \cap LaneOpts = {FirstLane(g.mode)}
    /\ "EPOCH_LEN" \in g.cur_epoch.counter_fmt.opts
    /\ "free.start" \in hwOps

C8_Witness ==
  /\ UnitArmed
  /\ g.mode = {"STRG_ACTIVE", "STRG_HENV"}
  /\ g.cur_epoch.counter_fmt.opts = {"STRG_ACTIVE", "EPOCH_LEN"}
  /\ rt.phase = "BUSY" /\ hw.free

\* C9: when the mode is zero the counter format of every unit is zero, no
\* hardware counter is configured, started or read during the run, and the
\* accelerator-cycle total is zero, also in the reported counters, whose CPU
\* fields are the sums of the CPU timestamps.
C9_ZeroMode ==
  g.mode = {} =>
    /\ g.cur_epoch.counter_fmt = ZeroFmt
    /\ hwOps = {}
    /\ Armed(hw) = {}
    /\ g.npu_cycles_all = 0
    /\ g.cur_epoch.npu_core = 0
    /\ counters.extra = 0

C9_Witness ==
  /\ pc = "idle" /\ g.mode = {}
  /\ inst.user_cb = "user"
  /\ Len(evlog) = 4 * net.n_epochs
  /\ Len(usercalls) = 2 * net.n_epochs
  /\ counters.cpu_all > 0 /\ counters.cpu_core > 0 /\ counters.extra = 0

\* the units whose PRE_START has been handled, and those whose POST_END has
UnitsStarted == Cardinality({i \in 1..Len(evlog) : evlog[i].ev = "PRE_START"})
UnitsEnded == Cardinality({i \in 1..Len(evlog) : evlog[i].ev = "POST_END"})

\* C10: every counter set armed at a unit's PRE_START is stopped and drained
\* at that unit's POST_END: outside a unit no counter set is armed and there
\* have been as many drains as arms, inside a unit at most one arm is not yet
\* drained; a drain of the cache counters reads them and then disables them;
\* and no counter set is armed when the run has ended.
C10_ArmDrain ==
  /\ UnitsStarted = UnitsEnded => (nArm = nDrain /\ Armed(hw) = {})
  /\ UnitsStarted # UnitsEnded =>
        /\ UnitsStarted = UnitsEnded + 1
        /\ nArm = nDrain + (IF g.cur_epoch.counter_fmt.opts \cap CounterOpts # {}
                             THEN 1 ELSE 0)
  /\ nArm = 0 \/ nArm = UnitsStarted
  /\ (\E i \in 1..Len(lastDrain) : lastDrain[i] \in {"cache.get", "cache.disable"}) =>
        /\ Len(lastDrain) >= 2
        /\ lastDrain[1] = "cache.get"
        /\ lastDrain[2] = "cache.disable"
  /\ pc # "run_loop" => Armed(hw) = {}

C10_Witness ==
  /\ pc = "idle"
  /\ net.n_epochs = MaxUnits
  /\ nArm = MaxUnits /\ nDrain = MaxUnits
  /\ g.mode = {"STRG_HENV", "NPU_CACHE"}
  /\ lastDrain = <<"cache.get", "cache.disable", "streng.stop", "streng.read", "free.stop">>
  /\ "cache.enable" \in hwOps /\ "streng.start" \in hwOps

\* ------------------------------------------- properties of the Run command


\* the operations of an install and of a teardown, in order
InstallOps ==
  <<"_force_clean_cache_subsystem", "port_dwt_init", "_npu_internal_reset",
    "LL_ATON_RT_SetRuntimeCallback(_rt_callback)", "LL_ATON_RT_RuntimeInit",
    "LL_ATON_RT_Init_Network">>

TeardownOps ==
  <<"LL_ATON_RT_DeInit_Network", "LL_ATON_RT_RuntimeDeInit",
    "LL_ATON_RT_SetRuntimeCallback(NULL)">>

\* C14: the lifecycle state is always 0 or 1. It moves to Ready only by an
\* install (npu_init mode 1, called directly or by npu_run on an Uninitialized
\* instance) and to Uninitialized only by a teardown (npu_init mode 0, called
\* directly or by npu_run when it returns from a run it installed). A soft
\* reset (mode 2) never changes the state and clears the caches only when the
\* instance is Ready.
C14_Lifecycle ==
  [][/\ inst'.state \in {0, 1}
     /\ (inst.state = 0 /\ inst'.state = 1) =>
          /\ \/ call'.fn = "npu_init" /\ call'.arg = <<1>>
             \/ call'.fn = "npu_run" /\ call'.state0 = 0
          /\ call'.ops = InstallOps
     /\ (inst.state = 1 /\ inst'.state = 0) =>
          \/ call'.fn = "npu_init" /\ call'.arg = <<0>> /\ call'.ops = TeardownOps
          \/ call'.fn = "npu_run" /\ call'.state0 = 0
               /\ call'.ops = InstallOps \o TeardownOps
     /\ (call'.fn = "npu_init" /\ call'.arg = <<1>>) => inst'.state = 1
     /\ (call'.fn = "npu_init" /\ call'.arg = <<0>>) => inst'.state = 0
     /\ (call'.fn = "npu_init" /\ call'.arg = <<2>>) =>
          /\ inst'.state = inst.state
          /\ call'.ops = IF inst.state = 1 THEN <<"_force_clean_cache_subsystem">>
                         ELSE <<>>]_vars

\* a soft reset of an Uninitialized instance has returned: nothing was cleared
C14_Witness ==
  /\ call.fn = "npu_init" /\ call.arg = <<2>> /\ call.state0 = 0
  /\ inst.state = 0 /\ call.ops = <<>> /\ pc = "idle"

\* C15: a teardown (npu_init mode 0) of an instance that is already
\* Uninitialized is a no-op: it returns success, the state stays
\* Uninitialized, and it performs no de-initialization of the runtime or of
\* the network.
C15_TeardownNoOp ==
  (call.fn = "npu_init" /\ call.arg = <<0>> /\ call.state0 = 0) =>
    /\ call.out = <<0>>
    /\ inst.state = 0
    /\ call.ops = <<>>

\* C16: npu_set_callback stores the callback it is given (or clears it, given
\* NULL) and changes nothing else: the state and the option of the instance,
\* the model info, the global run context, the runtime and the counters are
\* as before the call.
C16_SetCallbackOnly ==
  [][call'.fn = "npu_set_callback" =>
       /\ inst'.user_cb = call'.arg[1]
       /\ inst'.state = inst.state /\ inst'.option = inst.option
       /\ net' = net /\ g' = g /\ rt' = rt /\ hw' = hw /\ counters' = counters
       /\ call'.out = <<0>>]_vars

\* a callback has been registered on a Ready instance with options set, after
\* a run without one
C16_Witness ==
  /\ call.fn = "npu_set_callback" /\ call.arg = <<"user">> /\ pc = "idle"
  /\ inst.user_cb = "user" /\ inst.state = 1 /\ inst.option # {}
  /\ g.user_cb = "NULL" /\ counters # ZeroCounters

\* C17: aiExecCtx returns a context exactly when the name is given and either
\* is non-empty and is, in length and in content, the name of a bound slot,
\* or is empty with the index within [0, number of slots) and that slot
\* bound; the context returned is then such a slot. A null name, an index
\* out of range or negative, an unbound slot give none.
C17_LookupIff ==
  (call.fn = "aiExecCtx" /\ call.out # <<>>) =>
    LET tab == call.arg[1]
        nn == call.arg[2]
        pos == call.arg[3]
        r == call.out[1]
        Named(k) == nn.str # <<>> /\ tab[k].impl /\ tab[k].name = nn.str
        Indexed(k) == nn.str = <<>> /\ k = pos + 1 /\ tab[k].impl
    IN /\ (r # NullCtx) <=>
            (~nn.null /\ \E k \in 1..Len(tab) : Named(k) \/ Indexed(k))
       /\ (r # NullCtx) => (r + 1 \in 1..Len(tab) /\ (Named(r + 1) \/ Indexed(r + 1)))

\* the network's name was looked up and found in the second slot, the first
\* being unbound
C17_Witness ==
  /\ call.fn = "aiExecCtx" /\ call.out = <<1>>
  /\ call.arg[2].str = NetworkChars /\ ~call.arg[1][1].impl

\* C19: with the single-value flag set, receive_ai_io_tensor asks the peer
\* for exactly the bytes of one element, and after a successful receive every
\* element of the tensor equals the element received, for every tensor size
\* that is a multiple of the element size; with the flag clear it asks for
\* exactly the declared byte size and leaves the received bytes as they came.
C19_SingleValue ==
  (call.fn = "receive_ai_io_tensor" /\ call.out # <<>>) =>
    LET buf == call.arg[1]
        data == call.arg[3]
        r == call.out[1]
        el == buf.nbits \div 8
    IN /\ r.res <=> (Len(data) = r.size)
       /\ IF call.arg[2]
          THEN /\ r.size = el
               /\ (r.res /\ buf.size % el = 0) =>
                    \A e \in 0..((buf.size \div el) - 1) :
                      \A j \in 1..el : r.mem[e * el + j] = data[j]
          ELSE /\ r.size = buf.size
               /\ r.res => r.mem = data

\* a two-byte element was received into a four-byte tensor and copied to
\* its second element
C19_Witness ==
  /\ call.fn = "receive_ai_io_tensor" /\ call.out # <<>>
  /\ call.arg[2] /\ call.arg[1].size = 4 /\ call.arg[1].nbits = 16
  /\ call.arg[3] = <<"x", "y">>
  /\ call.out[1].res /\ call.out[1].mem = <<"x", "y", "x", "y">>

\* the cache range operations made on the range at addr
RangeOps(addr) == {i \in 1..Len(call.mem) : call.mem[i].addr = addr}

\* C18: in every run each input tensor range is clean-invalidated and each
\* output tensor range invalidated exactly once, and that is all the cache
\* range maintenance of the run: it is complete when the first unit is about
\* to be dispatched, and nothing is added to it between units or after the
\* last one.
C18_CacheOnceBeforeUnits ==
  (call.fn = "npu_run" /\ caller = "cmd") =>
    /\ \A k \in 1..net.n_inputs :
         /\ Cardinality(RangeOps(net.in_bufs[k].addr)) = 1
         /\ \A i \in RangeOps(net.in_bufs[k].addr) :
              call.mem[i].op = "mcu_cache_clean_invalidate_range"
    /\ \A k \in 1..net.n_outputs :
         /\ Cardinality(RangeOps(net.out_bufs[k].addr)) = 1
         /\ \A i \in RangeOps(net.out_bufs[k].addr) :
              call.mem[i].op = "mcu_cache_invalidate_range"
    /\ Len(call.mem) = net.n_inputs + net.n_outputs

\* a run observed with intermediate data has executed all its units, the
\* observer called at each PRE_START and POST_END
C18_Witness ==
  /\ call.fn = "npu_run" /\ caller = "cmd" /\ pc = "report"
  /\ ctx.emit_intermediate_data
  /\ net.n_inputs = MaxInputs /\ net.n_outputs = MaxOutputs /\ net.n_epochs = MaxUnits
  /\ Len(usercalls) = 2 * MaxUnits
  /\ Len(call.mem) = MaxInputs + MaxOutputs

\* npu_run is about to execute its first unit
RunStart == InLoop /\ rt.unit = 1 /\ rt.phase = "PRE_START"

\* C25: at the start of every npu_run the global run context is all zero, but
\* for the callback and the mode npu_run then takes from the instance: the
\* cycle accumulators, the accelerator-cycle total, the executed-unit index
\* and the current-unit counters hold nothing of an earlier run. The
\* counters a run reports are those of its own events: without a callback
\* the per-phase totals are zero, with one each total is the sum of one
\* sample per unit of this run.
C25_ContextZeroAtStart ==
  /\ RunStart =>
       /\ g.cpu_cycles_start = 0 /\ g.cpu_cycles_npu = 0 /\ g.cpu_cycles_end = 0
       /\ g.cpu_cycles_all = 0 /\ g.npu_cycles_all = 0 /\ g.exec_epoch_idx = 0
       /\ g.cur_epoch.counter_fmt.opts = {} /\ g.cur_epoch.counter_fmt.n = 0
       /\ g.cur_epoch.npu_start = 0 /\ g.cur_epoch.npu_core = 0
       /\ g.cur_epoch.npu_end = 0 /\ g.cur_epoch.cpu_start = 0
       /\ g.cur_epoch.cpu_core = 0 /\ g.cur_epoch.cpu_end = 0
       /\ g.user_cb = inst.user_cb
       /\ g.mode = IF inst.user_cb = "NULL" THEN {} ELSE inst.option
       /\ counters.cpu_all = 0 /\ counters.cpu_start = 0 /\ counters.cpu_core = 0
       /\ counters.cpu_end = 0 /\ counters.extra = 0
  /\ (call.fn = "npu_run" /\ pc = "idle") =>
       LET n == IF inst.user_cb = "NULL" THEN 0 ELSE net.n_epochs
       IN /\ counters.cpu_start \in n..(n * MaxDwt)
          /\ counters.cpu_core \in n..(n * MaxDwt)
          /\ counters.cpu_end \in n..(n * MaxDwt)

\* a run starts on hardware whose clock counter an earlier run has advanced
C25_Witness ==
  /\ RunStart /\ hw.clk > 0 /\ inst.user_cb = "user" /\ g.user_cb = "user"

\* npu_run has returned to its caller
RunReturned == call.fn = "npu_run" /\ pc = "idle"

\* C26, as stated: whenever the tick difference of a run reaches the
\* short-duration threshold the total CPU cycle count reported is the
\* tick-derived estimate, and below it the sum of the cycle-counter samples.
C26_Original ==
  RunReturned =>
    counters.cpu_all = IF loc.ret >= SHORT_RUN_TICKS THEN loc.ret * CyclesPerTick
                       ELSE g.cpu_cycles_all

\* C26: the total CPU cycle count reported is the tick-derived estimate when
\* the tick difference of the run reaches the short-duration threshold and
\* no user callback is registered on the instance; with a callback
\* registered, or below the threshold, it is the sum of the cycle-counter
\* samples.
C26_TickEstimate ==
  RunReturned =>
    counters.cpu_all = IF loc.ret >= SHORT_RUN_TICKS /\ inst.user_cb = "NULL"
                       THEN loc.ret * CyclesPerTick
                       ELSE g.cpu_cycles_all

\* a run with a callback has lasted the threshold and reports the sum
C26_Witness ==
  /\ RunReturned /\ loc.ret = SHORT_RUN_TICKS /\ inst.user_cb = "user"
  /\ counters.cpu_all = g.cpu_cycles_all
  /\ counters.cpu_all # loc.ret * CyclesPerTick

\* C27: the run loop advances the accelerator one step at a time, waits for
\* an event after each step that reports it busy and then steps again, and
\* leaves the loop only when a step reports LL_ATON_RT_DONE: npu_run never
\* returns while the last status reported is not DONE, the wait is entered
\* only on a busy status and left only by a wake-up, and, the accelerator
\* eventually completing each unit, every npu_run returns.
C27_LoopUntilDone ==
  /\ [][/\ (InLoop /\ pc' # "run_loop") => rt.phase = "DONE"
        /\ (~rt.asleep /\ rt'.asleep) => (InLoop /\ rt.phase = "BUSY")
        /\ (rt.asleep /\ ~rt'.asleep) => (InLoop /\ pc' = "run_loop")]_vars
  /\ (InLoop ~> RunReturned)

\* npu_run waits for an event in the last unit of the network
C27_Witness ==
  /\ InLoop /\ rt.asleep /\ rt.phase = "BUSY"
  /\ rt.unit = MaxUnits /\ net.n_epochs = MaxUnits

\* C30: in a run with a registered user callback, the callback is invoked
\* exactly twice per executed unit, at PRE_START without counters and at
\* POST_END with the counters of the unit, never at POST_START or PRE_END;
\* the two invocations of a unit carry the same index, which is 0 for the
\* first unit and grows by one per unit.
C30_UserCallbackTwice ==
  (call.fn = "npu_run" /\ inst.user_cb # "NULL") =>
    /\ \A i \in 1..Len(usercalls) :
         IF i % 2 = 1
         THEN usercalls[i] = [ctype |-> "PRE_START", idx |-> (i - 1) \div 2,
                              counters |-> FALSE]
         ELSE usercalls[i] = [ctype |-> "POST_END", idx |-> (i \div 2) - 1,
                              counters |-> TRUE]
    /\ InLoop => /\ Len(usercalls) >= 2 * (rt.unit - 1)
                 /\ Len(usercalls) <= 2 * rt.unit
                 /\ rt.phase \in {"POST_START", "BUSY", "PRE_END", "POST_END"}
                      => Len(usercalls) = 2 * rt.unit - 1
    /\ RunReturned => Len(usercalls) = 2 * net.n_epochs

\* a run of the longest network with a user callback has returned
C30_Witness ==
  /\ RunReturned /\ inst.user_cb = "user" /\ net.n_epochs = MaxUnits
  /\ Len(usercalls) = 2 * MaxUnits
  /\ usercalls[2 * MaxUnits].idx = MaxUnits - 1
  /\ usercalls[2 * MaxUnits - 1].idx = MaxUnits - 1

\* C31: when no user callback is registered on the instance, npu_run sets
\* the telemetry mode to zero and does not install the epoch callback,
\* whatever the option of the instance: no counter is armed, nothing is
\* accumulated per unit, and the per-phase counters reported (start, core,
\* end, accelerator total) are all zero.
C31_NoCallbackNoTelemetry ==
  (call.fn = "npu_run" /\ inst.user_cb = "NULL") =>
    /\ g.mode = {} /\ g.user_cb = "NULL"
    /\ InLoop => ~rt.epoch_cb
    /\ nArm = 0 /\ nDrain = 0 /\ hwOps = {} /\ evlog = <<>>
    /\ g.exec_epoch_idx = 0
    /\ g.cpu_cycles_start = 0 /\ g.cpu_cycles_npu = 0
    /\ g.cpu_cycles_end = 0 /\ g.npu_cycles_all = 0
    /\ RunReturned => /\ counters.cpu_start = 0 /\ counters.cpu_core = 0
                      /\ counters.cpu_end = 0 /\ counters.extra = 0

\* a run of the longest network, every counter asked and no callback
\* registered, has returned
C31_Witness ==
  /\ RunReturned /\ inst.user_cb = "NULL" /\ inst.option = CounterOpts
  /\ net.n_epochs = MaxUnits
  /\ counters.cpu_start = 0 /\ counters.extra = 0

\* C13: npu_run leaves the lifecycle state as it found it. While the units
\* execute the instance is Ready with the runtime and the network installed;
\* an instance found Uninitialized has been installed before the first unit
\* and is torn down only when the call returns, after the last unit; an
\* instance found Ready is neither installed again nor torn down.
C13_RunRestoresState ==
  call.fn = "npu_run" =>
    /\ InLoop =>
         /\ inst.state = 1 /\ rt.rt_init /\ rt.net_init
         /\ call.ops = IF call.state0 = 0 THEN InstallOps ELSE <<>>
    /\ pc = "idle" =>
         /\ inst.state = call.state0
         /\ rt.net_init = (call.state0 = 1)
         /\ call.ops = IF call.state0 = 0 THEN InstallOps \o TeardownOps ELSE <<>>

\* a run of an Uninitialized instance has returned, all units executed
C13_Witness ==
  /\ call.fn = "npu_run" /\ pc = "idle" /\ call.state0 = 0
  /\ inst.state = 0 /\ Len(evlog) = 4 * net.n_epochs /\ net.n_epochs = MaxUnits

\* a Run command has been served and has returned
Returned == pc = "idle" /\ req # NoReq

\* the messages of a log that satisfy a test
Count(log, Test(_)) == Cardinality({i \in 1..Len(log) : Test(log[i])})

IsSizeError(m) == m.kind = "ack" /\ m.state = "S_ERROR" /\ m.err = "E_INVALID_SIZE"
IsInputAck(m) == m.kind = "ack" /\ m.err = "E_NONE"
IsPayload(m) == m.kind = "op" \/ m.kind = "tensor"
IsTerminal(m) == (m.kind = "ack" /\ m.state = "S_ERROR") \/ m.state = "S_DONE"

\* the last receive of the command read a byte count other than the expected
ShortRead == io.nb >= 0 /\ io.nb # io.size

\* C1: once an input tensor of a Run command has been received with a byte
\* count other than the expected one, the command has returned, its last
\* message is the error ack carrying E_INVALID_SIZE and the count read, no
\* input after the failing one has been received or acknowledged, npu_run has
\* not been called, and no operator or tensor message has been sent.
C1_SizeMismatchAborts ==
  ShortRead =>
    /\ Returned
    /\ sent[Len(sent)] = Ack("S_ERROR", io.nb, "E_INVALID_SIZE")
    /\ Count(sent, IsSizeError) = 1
    /\ Count(sent, IsInputAck) = io.idx
    /\ ~io.ran
    /\ Count(sent, IsPayload) = 0

C1_Witness ==
  /\ ShortRead /\ Returned
  /\ net.n_inputs = MaxInputs /\ io.idx = MaxInputs
  /\ io.nb = 500 /\ io.size = InputBytes
  /\ Count(sent, IsSizeError) = 1

\* C2 as stated: the device blocks for a peer ack only after an input tensor
\* that is not the last one.
C2_Original == pc = "wait_ack" => io.idx < net.n_inputs

\* C2 amended: after every successfully received input tensor, the last one
\* included, the device sends an ack (state WAITING, or PROCESSING for the
\* last) and blocks until the peer acknowledges it: a receive that does not
\* abort the command leads to the wait, the wait ends only by the peer's ack,
\* and npu_run is reached only from the wait that follows the last tensor.
C2_AckEveryTensor ==
  [][/\ (pc = "recv" /\ pc' # "idle") =>
          /\ pc' = "wait_ack"
          /\ sent' = Append(sent, Ack(InputState(io.idx), io'.size, "E_NONE"))
     /\ pc = "wait_ack" => (pc' \in {"recv", "exec"} /\ sent' = sent)
     /\ (pc' = "exec" /\ pc # "exec") => (pc = "wait_ack" /\ io.idx = net.n_inputs)
    ]_vars

C2_Witness ==
  /\ pc = "wait_ack"
  /\ net.n_inputs = MaxInputs /\ io.idx = MaxInputs
  /\ sent[Len(sent)] = Ack("S_PROCESSING", InputBytes, "E_NONE")

\* C3: a Run command that has returned has sent exactly one terminal message,
\* an error-state ack or a DONE-state message, whatever the outcome and the
\* numbers of input and output tensors of the instance.
C3_OneTerminal == Returned => Count(sent, IsTerminal) = 1

\* C12: a Run command whose name resolves to no instance sends exactly one
\* error ack carrying E_INVALID_PARAM and does nothing else: the command is
\* over at once, with no readiness ack, no reception, no execution, and with
\* the option, callback and state of the instance, its context flags and the
\* runtime left as they were.
C12_UnknownNameOnlyAck ==
  [][(pc = "idle" /\ req'.name # NetworkName)
       => /\ sent' = <<Ack("S_ERROR", "E_INVALID_PARAM", "E_INVALID_PARAM")>>
          /\ pc' = "idle"
          /\ io'.nb = -1 /\ ~io'.ran
          /\ inst' = inst /\ ctx' = ctx /\ rt' = rt /\ hw' = hw
          /\ evlog' = evlog /\ call' = call]_vars

\* an unknown name was refused after an earlier command had set the run
\* options and the observer flags
C12_Witness ==
  /\ Returned /\ req.name = "other"
  /\ sent = <<Ack("S_ERROR", "E_INVALID_PARAM", "E_INVALID_PARAM")>>
  /\ inst.option # {} /\ ctx.observer_is_enabled

\* the run-level operator message: the one not flagged internal
IsRunReport(m) == m.kind = "op" /\ "INTERNAL" \notin m.flags

IsOutputTensor(m) == m.kind = "tensor" /\ "OUTPUT" \in m.flags

\* C20: after a successful run the device streams exactly one tensor message
\* per output tensor, in index order, each flagged OUTPUT: they are all that
\* follows the run-level operator message, the k-th is that of the k-th
\* output buffer, the last one and only it carries the LAST flag and the
\* S_DONE state, and nothing follows it.
C20_OutputStream ==
  (Returned /\ io.ran) =>
    \E p \in 1..Len(sent) :
      /\ IsRunReport(sent[p])
      /\ Len(sent) - p = net.n_outputs
      /\ Count(sent, IsOutputTensor) = net.n_outputs
      /\ \A k \in 1..net.n_outputs :
           LET m == sent[p + k]
           IN /\ IsOutputTensor(m)
              /\ m.addr = net.out_bufs[k].addr
              /\ ("LAST" \in m.flags) <=> (k = net.n_outputs)
              /\ (m.state = "S_DONE") <=> (k = net.n_outputs)

\* an observed run of a network with several outputs has been reported
C20_Witness ==
  /\ Returned /\ io.ran /\ net.n_outputs = MaxOutputs /\ net.n_epochs = MaxUnits
  /\ ctx.observer_is_enabled
  /\ sent[Len(sent)].state = "S_DONE" /\ sent[Len(sent)].addr = <<"out", MaxOutputs>>

\* the place of a message in a Run command: acks, then what the observer
\* streams during the run, then the run-level operator, then the outputs
MsgClass(m) ==
  IF m.kind = "ack" THEN 0
  ELSE IF "INTERNAL" \in m.flags THEN 1
  ELSE IF m.kind = "op" THEN 2
  ELSE 3

\* the Run command has found its instance
Accepted == req # NoReq /\ sent # <<>> /\ sent[1].state = "S_WAITING"

\* C21: in a Run command that reaches execution the messages are ordered.
\* The first one is the readiness ack, advertising the byte size of the
\* first input tensor, and it is the only one until an input has been
\* received; when execution starts every input has been acknowledged and
\* nothing but acks has been sent; every per-unit operator and tensor
\* message comes before the run-level operator message, of which there is
\* never more than one and exactly one once the outputs are sent, after it.
C21_MessageOrder ==
  Accepted =>
    /\ sent[1] = Ack("S_WAITING", net.in_bufs[1].size, "E_NONE")
    /\ io.nb = -1 => Len(sent) = 1
    /\ (pc = "exec" \/ io.ran) =>
         /\ Count(sent, IsInputAck) = 1 + net.n_inputs
         /\ \A i \in 1..(1 + net.n_inputs) : sent[i].kind = "ack"
    /\ pc = "exec" => Len(sent) = 1 + net.n_inputs
    /\ \A i, j \in 1..Len(sent) : i < j => MsgClass(sent[i]) <= MsgClass(sent[j])
    /\ Count(sent, IsRunReport) <= 1
    /\ (pc = "send" \/ Count(sent, IsOutputTensor) > 0 \/ (Returned /\ io.ran)) =>
         Count(sent, IsRunReport) = 1

\* a run observed unit by unit, of a network with several inputs and
\* outputs, has sent its last output
C21_Witness ==
  /\ Returned /\ io.ran /\ ctx.observer_is_enabled
  /\ net.n_inputs = MaxInputs /\ net.n_outputs = MaxOutputs /\ net.n_epochs = MaxUnits
  /\ Count(sent, IsRunReport) = 1
  /\ Len(sent) > 2 + MaxInputs + MaxOutputs

IsDumpTensor(m) == m.kind = "tensor" /\ "INTERNAL" \in m.flags

\* C22: every buffer streamed by the per-unit dump callback carries the
\* NO_DATA flag, and a data length of zero, if and only if intermediate-data
\* emission was not requested for the run; when it was requested the content
\* of the buffer is sent.
C22_NoDataIffNotRequested ==
  \A i \in 1..Len(sent) :
    IsDumpTensor(sent[i]) =>
      /\ ("NO_DATA" \in sent[i].flags) <=> ~ctx.emit_intermediate_data
      /\ (sent[i].val = 0) <=> ~ctx.emit_intermediate_data

\* C23: for every completed unit reported by the dump callback the 32-bit
\* operator id has the current unit index in its low 16 bits and the unit's
\* last-associated index in its high 16 bits, for every sequence of units,
\* one that starts with auxiliary units of negative index included.
C23_OperatorId ==
  (call.fn = "npu_dump_tensors_cb" /\ call.out # <<>>) =>
    \A k \in 1..Len(call.out[1]) :
      LET r == call.out[1][k]
      IN r.id.lo = r.cur % 65536 /\ r.id.hi = r.last % 65536

\* the byte size of a descriptor is the product of its dimensions times the
\* byte width of its elements
SizeConsistent(buf) == buf.size = NbElem(buf.shape, 1) * (buf.nbits \div 8)

\* C24: for every tensor descriptor whose byte size differs from the product
\* of its shape dimensions times its element byte width, a size-mismatch
\* error is reported before any data transfer for that tensor is attempted:
\* an input tensor about to be received is refused with E_INVALID_SIZE and
\* its memory left as it was, a tensor about to be streamed is answered by
\* an error ack carrying E_INVALID_SIZE in place of the tensor message.
C24_SizeMismatchFirst ==
  /\ (call.fn = "receive_ai_io_tensor" /\ call.out # <<>>
        /\ ~SizeConsistent(call.arg[1])) =>
       /\ ~call.out[1].res /\ call.out[1].err = "E_INVALID_SIZE"
       /\ call.out[1].mem = call.arg[1].mem
  /\ (call.fn = "send_ai_io_tensor" /\ call.out # <<>>
        /\ ~SizeConsistent(call.arg[1])) =>
       /\ call.out[1].kind = "ack" /\ call.out[1].err = "E_INVALID_SIZE"

\* C28: a successful Run without the PERF parameter returns, for each output
\* tensor, a payload whose length is the byte size declared for the tensor,
\* and the payload length of an output tensor message is zero exactly when
\* the message carries the NO_DATA flag (which the PERF parameter sets).
C28_OutputPayload ==
  (Returned /\ io.ran) =>
    /\ Count(sent, IsOutputTensor) = net.n_outputs
    /\ \A i \in 1..Len(sent) :
         IsOutputTensor(sent[i]) =>
           /\ (sent[i].val = 0) <=> ("NO_DATA" \in sent[i].flags)
           /\ ("NO_DATA" \in sent[i].flags) <=> ("PERF" \in req.param)
           /\ "PERF" \notin req.param =>
                \E k \in 1..net.n_outputs :
                  /\ sent[i].addr = net.out_bufs[k].addr
                  /\ sent[i].val = net.out_bufs[k].size

\* a run without PERF has returned the content of its last output tensor
C28_Witness ==
  /\ Returned /\ io.ran /\ "PERF" \notin req.param
  /\ net.n_outputs = MaxOutputs
  /\ IsOutputTensor(sent[Len(sent)])
  /\ sent[Len(sent)].val = OutputBytes /\ "NO_DATA" \notin sent[Len(sent)].flags

\* C29: npu_get_instance_by_index returns -1 for a null instance record, -2
\* for every index that does not designate one of the compiled-in models
\* (negative indices and the index one past the last model included), and 0
\* otherwise; on a non-zero return the record is left as it was, and on 0 it
\* is bound to the model with state 0 (uninitialized) and no callback.
C29_GetInstance ==
  (call.fn = "npu_get_instance_by_index" /\ call.out # <<>>) =>
    LET idx == call.arg[1]
        p == call.arg[2]
        r == call.out[1]
    IN /\ r.ret = (IF p = <<>> THEN -1
                   ELSE IF idx \notin 0..(NbModels - 1) THEN -2 ELSE 0)
       /\ r.ret # 0 => r.instance = p
       /\ r.ret = 0 => /\ r.instance # <<>>
                       /\ r.instance[1].impl = "NN_Instance_Default"
                       /\ r.instance[1].state = 0
                       /\ r.instance[1].user_cb = "NULL"

\* C32: for every completed unit the observer is called for, one operator
\* descriptor is sent first and the buffers associated with the unit follow
\* it in order; the operator type carries WITHOUT_TENSOR if and only if no
\* buffer is associated, and when buffers are sent the last one and only it
\* carries the LAST flag.
C32_OperatorThenBuffers ==
  (call.fn = "npu_dump_tensors_cb(POST_END)" /\ call.out # <<>>) =>
    LET bufs == call.out[1].bufs
        msgs == call.out[1].msgs
    IN /\ Len(msgs) = 1 + Len(bufs)
       /\ msgs[1].kind = "op" /\ "INTERNAL" \in msgs[1].flags
       /\ ("WITHOUT_TENSOR" \in msgs[1].flags) <=> (Len(bufs) = 0)
       /\ \A i \in 1..Len(bufs) :
            /\ msgs[i + 1].kind = "tensor" /\ "INTERNAL" \in msgs[i + 1].flags
            /\ msgs[i + 1].addr = bufs[i].addr
            /\ ("LAST" \in msgs[i + 1].flags) <=> (i = Len(bufs))

\* the observer has sent an operator descriptor and two buffers after it
C32_Witness ==
  /\ call.fn = "npu_dump_tensors_cb(POST_END)" /\ call.out # <<>>
  /\ Len(call.out[1].bufs) = 2 /\ Len(call.out[1].msgs) = 3
  /\ "LAST" \in call.out[1].msgs[3].flags
  /\ "WITHOUT_TENSOR" \notin call.out[1].msgs[1].flags

\* C33: the buffers associated with a completed unit follow the adjacency
\* rule and stay in bounds: when the epoch_num of the unit is positive and
\* the next entry of the array has the same epoch_num no buffer is
\* associated; otherwise the associated buffers are the valid internal
\* buffers owned by the current unit index, plus those owned by that index
\* plus one when the epoch_num of the next entry is not that index plus one,
\* plus the valid output buffers owned by the current index; never more
\* than MAX_CDT_LL_BUFFERS of them, the first ones in that order.
C33_Association ==
  (call.fn = "npu_dump_tensors_cb(POST_END)" /\ call.out # <<>>) =>
    LET k == call.arg[1]
        cur == call.out[1].cur
        bufs == call.out[1].bufs
        next == IF k < net.n_epochs THEN net.epochs[k + 1].epoch_num
                ELSE SentinelEpochNum
        IntOwned(b) == b.valid /\ (b.epoch = cur \/ (next # cur + 1 /\ b.epoch = cur + 1))
        OutOwned(b) == b.valid /\ b.epoch = cur
        want == SelectSeq(net.internals, IntOwned) \o SelectSeq(net.out_bufs, OutOwned)
    IN /\ Len(bufs) <= MAX_CDT_LL_BUFFERS
       /\ IF net.epochs[k].epoch_num > 0 /\ next = net.epochs[k].epoch_num
          THEN bufs = <<>>
          ELSE /\ Len(bufs) = IF Len(want) <= MAX_CDT_LL_BUFFERS THEN Len(want)
                              ELSE MAX_CDT_LL_BUFFERS
               /\ \A i \in 1..Len(bufs) : bufs[i] = want[i]

\* C34: the run options in effect for a Run command (observer enabled, emit
\* intermediate data, single value, debug, current unit index -1) are a
\* function of the param of that request only, whatever commands ran before,
\* and asking for the per-layer mode with data always enables the observer.
C34_OptionsFromParam ==
  Accepted =>
    /\ ctx.observer_is_enabled <=> ("PER_LAYER" \in req.param)
    /\ ctx.emit_intermediate_data <=> ({"PER_LAYER", "WITH_DATA"} \subseteq req.param)
    /\ ctx.simple_value <=> ("CONST_VALUE" \in req.param)
    /\ ctx.debug <=> ("DEBUG" \in req.param)
    /\ ctx.emit_intermediate_data => ctx.observer_is_enabled
    /\ ~io.ran /\ pc \notin {"run_loop", "idle"} => ctx.cur_epoch_num = -1

\* a Run command without observer is accepted after an observed run
C34_Witness ==
  /\ Accepted /\ ~io.ran /\ pc \notin {"run_loop", "idle"}
  /\ call.fn = "npu_run" /\ usercalls # <<>>
  /\ "PER_LAYER" \notin req.param /\ ~ctx.observer_is_enabled
  /\ ctx.cur_epoch_num = -1

\* C35: after any sequence of Run commands, whatever their outcomes, when no
\* command is being processed the user callback of the instance is null,
\* the callback of the global run context is null and no epoch callback is
\* registered with the runtime: the observer asked by one Run is never
\* active in a later Run that did not ask for it.
C35_NoCallbackLeft ==
  /\ pc = "idle" =>
       inst.user_cb = "NULL" /\ g.user_cb = "NULL" /\ ~rt.epoch_cb
  /\ (pc = "run_loop" /\ ~ctx.observer_is_enabled) =>
       /\ inst.user_cb = "NULL" /\ g.user_cb = "NULL" /\ ~rt.epoch_cb
       /\ usercalls = <<>>
       /\ \A i \in 1..Len(sent) : sent[i].kind = "ack"

\* an observed Run of the longest network has been answered
C35_Witness ==
  /\ Returned /\ io.ran /\ ctx.observer_is_enabled
  /\ Len(usercalls) = 2 * MaxUnits
  /\ inst.user_cb = "NULL" /\ g.user_cb = "NULL" /\ ~rt.epoch_cb

\* C36: a Run command with an empty name always fails with E_INVALID_PARAM,
\* Run resolving its context with the positional index -1, whereas a
\* ModelInfo command with an empty name and a param that is the index of a
\* bound instance succeeds and returns the info of that instance.
C36_EmptyName ==
  /\ (call.fn = "aiPbCmdNNRun" /\ call.out # <<>>
        /\ ~call.arg[2].null /\ call.arg[2].str = <<>>) =>
       /\ call.out[1].kind = "ack" /\ call.out[1].state = "S_ERROR"
       /\ call.out[1].err = "E_INVALID_PARAM"
  /\ (call.fn = "aiPbCmdNNInfo" /\ call.out # <<>>
        /\ ~call.arg[2].null /\ call.arg[2].str = <<>>
        /\ call.arg[3] \in 0..(Len(call.arg[1]) - 1)
        /\ call.arg[1][call.arg[3] + 1].impl) =>
       /\ call.out[1].kind = "model_info" /\ call.out[1].state = "S_IDLE"
       /\ call.out[1].val = call.arg[3]
       /\ call.out[1].addr = call.arg[1][call.arg[3] + 1].name

\* a Run command with an empty name is refused although every context is
\* bound
C36_Witness ==
  /\ call.fn = "aiPbCmdNNRun" /\ call.out # <<>>
  /\ ~call.arg[2].null /\ call.arg[2].str = <<>>
  /\ Len(call.arg[1]) = MaxNetworks
  /\ \A k \in 1..MaxNetworks : call.arg[1][k].impl
  /\ call.out[1].err = "E_INVALID_PARAM"

\* C37: rl_tools_init sets the tick to 0 and the whole action history to
\* zero; every call of rl_tools_control adds exactly one to the tick; the
\* rows of the history move one place toward index 0 exactly in the calls
\* made when the tick is a multiple of CONTROL_FREQUENCY_MULTIPLE, and in
\* every other call all the rows but the last are unchanged, the last row
\* alone being updated.
C37_TickAndHistory ==
  [][/\ call'.fn = "rl_tools_init" =>
          /\ controller_tick' = 0
          /\ \A i \in 1..ACTION_HISTORY_LENGTH : \A j \in 1..ActionsPerStep :
               action_history'[i][j].num = 0
     /\ call'.fn = "rl_tools_control" =>
          /\ controller_tick' = controller_tick + 1
          /\ \A i \in 1..(ACTION_HISTORY_LENGTH - 1) :
               action_history'[i] =
                 IF controller_tick % CONTROL_FREQUENCY_MULTIPLE = 0
                 THEN action_history[i + 1] ELSE action_history[i]]_vars

\* the call that moves the rows has just been made for the third time: the
\* actions of the first period are two places from the end
C37_Witness ==
  /\ call.fn = "rl_tools_control"
  /\ controller_tick = 2 * CONTROL_FREQUENCY_MULTIPLE + 1
  /\ action_history[ACTION_HISTORY_LENGTH - 2] # ZeroRow
  /\ action_history[ACTION_HISTORY_LENGTH - 1] # action_history[ACTION_HISTORY_LENGTH - 2]
====
